---- MODULE Spec2Model ----
(***************************************************************************)
(* Meal-logging application: the Entry Store (mealStorage.ts) over         *)
(* AsyncStorage, and the screens that call it.                             *)
(*                                                                         *)
(* Spec    the Entry Store called by one caller that awaits every call     *)
(*         before it issues the next one (one action per call).            *)
(* SpecUI  the HomeScreen / GoalSettingsModal handlers, each an async      *)
(*         function that is suspended at its awaits, so that handlers      *)
(*         started by separate user actions interleave.                    *)
(* SpecGoals, SpecForms  the goal form and the meal forms.                 *)
(* SpecAgg   calculateDailyNutrition and the weekly report.                *)
(* SpecPhoto, SpecScan  the image analysis and the barcode scanner.        *)
(* SpecTheme the theme provider and its stored setting.                    *)
(* SpecWeek  loadWeeklyData interleaved with saves and deletes.            *)
(* SpecHome  HomeScreen and the screens it returns in its place.           *)
(* SpecRead  the Entry Store over a store left by an earlier run.          *)
(***************************************************************************)
EXTENDS Integers, Sequences, FiniteSets

VARIABLES
    AsyncStorage,   \* mealStorage.ts:2  key -> NullItem or Item(JSON text)
    now,            \* mealStorage.ts:16  the value Date.now() returns
    last,           \* Spec: the last completed Entry Store call
    handlers,       \* SpecUI: the handler invocations in flight
    meals,          \* SpecUI: HomeScreen's meals state
    acked,          \* SpecUI: entries whose saveMealEntry returned true
    goalForm,       \* GoalSettingsModal.tsx:36-41  the state of the goal form
    mealForm,       \* EditMealModal.tsx:45-50, ImageDetectionModal.tsx  the meal forms
    report,         \* what calculateDailyNutrition and WeeklyProgressReport computed
    photo,          \* ImageDetectionModal.tsx:53-60  the add modal and its analysis
    scanner,        \* ThemeContext.tsx:138-141, 468-472  the barcode scanner
    theme,          \* ThemeContext.tsx:57-83  the theme provider and its stored setting
    home,           \* (tabs)/index.tsx:36-66  what HomeScreen shows, and the screen on top
    loader          \* WeeklyProgressReport.tsx:45-91  a loadWeeklyData in progress

\* the components each with a specification of its own
others == <<photo, scanner, theme, home, loader>>

\* the state of the screens other than HomeScreen
screens == <<goalForm, mealForm, report, others>>

vars == <<AsyncStorage, now, last, handlers, meals, acked, screens>>

---------------------------------------------------------------------------
(* Bounds *)

\* Date.now() ranges over 1..MaxClock
MaxClock == 2

\* handler invocations that can be in flight together
NumHandlers == 2

---------------------------------------------------------------------------
(* JavaScript values *)

\* the value undefined (also what reading an absent property yields)
Undefined == "<undefined>"

Digits == <<"0", "1", "2", "3", "4", "5", "6", "7", "8", "9">>

\* Number.prototype.toString for a non-negative integer
RECURSIVE toString(_)
toString(n) ==
    IF n < 10 THEN Digits[n + 1]
    ELSE toString(n \div 10) \o Digits[(n % 10) + 1]

\* obj.f
Get(obj, f) == IF f \in DOMAIN obj THEN obj[f] ELSE Undefined

\* a string operand of || : undefined and '' are falsy
Truthy(v) == v # Undefined /\ v # ""

\* { ...obj, f: v }
Spread(obj, f, v) ==
    [g \in DOMAIN obj \cup {f} |-> IF g = f THEN v ELSE obj[g]]

\* an integer below 100 in two digits, below 1000 in three
Pad2(n) == (IF n < 10 THEN "0" ELSE "") \o toString(n)

Pad3(n) == (IF n < 10 THEN "00" ELSE IF n < 100 THEN "0" ELSE "") \o toString(n)

\* milliseconds of a minute, an hour, a day
MinuteMs == 60000

HourMs == 60 * MinuteMs

DayMs == 24 * HourMs

\* new Date(t).toISOString() for an instant t (milliseconds since the
\* epoch) of January 1970
toISOString(t) ==
    "1970-01-" \o Pad2(t \div DayMs + 1)
        \o "T" \o Pad2((t % DayMs) \div HourMs)
        \o ":" \o Pad2((t % HourMs) \div MinuteMs)
        \o ":" \o Pad2((t % MinuteMs) \div 1000)
        \o "." \o Pad3(t % 1000) \o "Z"

WeekDays == <<"Sun", "Mon", "Tue", "Wed", "Thu", "Fri", "Sat">>

\* the local calendar day of an instant, in days since 1 January 1970, in a
\* time zone offset minutes east of UTC (no daylight saving change)
LocalDay(t, offset) == (t + offset * MinuteMs) \div DayMs

\* new Date(t).toDateString() in that time zone, for a day of January 1970
toDateString(t, offset) ==
    LET day == LocalDay(t, offset)
    IN  WeekDays[((day + 4) % 7) + 1] \o " Jan " \o Pad2(day + 1) \o " 1970"

\* The numbers the program stores are integers; the values that are not
\* finite numbers are encoded by integers outside the range of every number
\* the model computes.

\* Number.NaN: parseInt of a text without leading digits, 0 / 0, x / undefined
NaN == -1000001

\* Number.POSITIVE_INFINITY: x / 0 for x > 0
Infinity == 1000000

\* Number.NEGATIVE_INFINITY: x / 0 for x < 0
NegInfinity == -1000000

\* null in a numeric property: what JSON.stringify writes for NaN and Infinity
Null == -1000002

isFinite(n) == NegInfinity < n /\ n < Infinity

\* the properties that hold strings (or undefined); calories, protein, carbs,
\* fat and the goal targets hold numbers
StringProps ==
    {"id", "food", "notes", "image", "timestamp", "goalType", "activityLevel"}

\* JSON.stringify of an object: properties whose value is undefined are
\* left out of the text, and a number that is not finite is written as null
stringifyObject(obj) ==
    [f \in {g \in DOMAIN obj : ~(g \in StringProps /\ obj[g] = Undefined)}
        |-> IF f \in StringProps \/ isFinite(obj[f]) THEN obj[f] ELSE Null]

\* JSON.stringify of an array of objects; the JSON text is represented by
\* the value it encodes
stringifyArray(arr) == [i \in DOMAIN arr |-> stringifyObject(arr[i])]

\* JSON.parse of a text written by JSON.stringify
parse(text) == text

Range(s) == {s[i] : i \in DOMAIN s}

---------------------------------------------------------------------------
(* Fractional intermediate results are IEEE 754 doubles: a sign, a         *)
(* magnitude below 2^53 written in digits of LimbBits bits (most           *)
(* significant first, <<>> for zero) and a binary exponent: the value is   *)
(* (-1)^neg * mag * 2^exp.                                                 *)

Abs(n) == IF n < 0 THEN -n ELSE n

\* width of the significand of a double
SignificandBits == 53

\* width of a digit of a magnitude; the integer operand k of MulInt and
\* DivInt is below 2^18, so that every intermediate fits 31 bits
LimbBits == 12

Base == 2 ^ LimbBits

\* the digits of a non-negative integer
RECURSIVE Limbs(_)
Limbs(n) == IF n = 0 THEN <<>> ELSE Limbs(n \div Base) \o <<n % Base>>

\* the integer a magnitude below 2^31 denotes
RECURSIVE ToInt(_)
ToInt(mag) ==
    IF mag = <<>> THEN 0
    ELSE Base * ToInt(SubSeq(mag, 1, Len(mag) - 1)) + mag[Len(mag)]

RECURSIVE Strip(_)
Strip(mag) == IF mag # <<>> /\ mag[1] = 0 THEN Strip(Tail(mag)) ELSE mag

Zeros(n) == [i \in 1..n |-> 0]

\* the number of binary digits of a digit
RECURSIVE BitLen(_)
BitLen(v) == IF v = 0 THEN 0 ELSE 1 + BitLen(v \div 2)

BitLength(mag) ==
    IF mag = <<>> THEN 0 ELSE LimbBits * (Len(mag) - 1) + BitLen(mag[1])

\* mag + 1
RECURSIVE AddOne(_)
AddOne(mag) ==
    IF mag = <<>> THEN <<1>>
    ELSE IF mag[Len(mag)] < Base - 1
         THEN SubSeq(mag, 1, Len(mag) - 1) \o <<mag[Len(mag)] + 1>>
         ELSE AddOne(SubSeq(mag, 1, Len(mag) - 1)) \o <<0>>

\* mag[1..i] * k + carry, prepended to acc
RECURSIVE MulLimbs(_, _, _, _, _)
MulLimbs(mag, i, k, carry, acc) ==
    IF i = 0 THEN Limbs(carry) \o acc
    ELSE LET v == mag[i] * k + carry
         IN  MulLimbs(mag, i - 1, k, v \div Base, <<v % Base>> \o acc)

\* long division of mag[i..] by k with the remainder r carried in
RECURSIVE DivLimbs(_, _, _, _, _)
DivLimbs(mag, i, k, r, acc) ==
    IF i > Len(mag) THEN [quotient |-> Strip(acc), remainder |-> r]
    ELSE LET v == r * Base + mag[i]
         IN  DivLimbs(mag, i + 1, k, v % k, acc \o <<v \div k>>)

\* floor(mag / 2^d), and whether digits were lost
ShiftRight(mag, d) ==
    LET whole == d \div LimbBits
        kept == SubSeq(mag, 1, Len(mag) - whole)
        lost == SubSeq(mag, Len(mag) - whole + 1, Len(mag))
        q == DivLimbs(kept, 1, 2 ^ (d % LimbBits), 0, <<>>)
    IN  [quotient |-> q.quotient,
         inexact |-> q.remainder # 0 \/ \E j \in DOMAIN lost : lost[j] # 0]

\* the double nearest to (-1)^neg * (mag + s) * 2^exp where 0 <= s < 1 and
\* sticky tells s > 0: round to nearest, ties to even
RoundToDouble(neg, mag, exp, sticky) ==
    LET m == Strip(mag)
        drop == BitLength(m) - SignificandBits
    IN  IF drop <= 0 THEN [neg |-> neg, mag |-> m, exp |-> exp]
        ELSE LET s == ShiftRight(m, drop - 1)
                 h == DivLimbs(s.quotient, 1, 2, 0, <<>>)
                 keep == h.quotient
                 up == /\ h.remainder = 1
                       /\ (s.inexact \/ sticky \/ keep[Len(keep)] % 2 = 1)
             IN  [neg |-> neg, mag |-> IF up THEN AddOne(keep) ELSE keep,
                  exp |-> exp + drop]

\* the double of an integer
FromInt(n) == [neg |-> n < 0, mag |-> Limbs(Abs(n)), exp |-> 0]

\* x * k for a double x and an integer k
MulInt(x, k) ==
    RoundToDouble(x.neg # (k < 0),
                  MulLimbs(x.mag, Len(x.mag), Abs(k), 0, <<>>), x.exp, FALSE)

\* digits of the dividend of the long division: the quotient then has more
\* than SignificandBits + 1 binary digits
DividendLimbs == 8

\* x / k for a double x and an integer k # 0
DivInt(x, k) ==
    LET pad == DividendLimbs - Len(x.mag)
        d == DivLimbs(x.mag \o Zeros(pad), 1, Abs(k), 0, <<>>)
    IN  IF x.mag = <<>> THEN x
        ELSE RoundToDouble(x.neg # (k < 0), d.quotient,
                           x.exp - LimbBits * pad, d.remainder # 0)

\* truncation toward zero of a double x with a negative exponent
MathTrunc(x) ==
    (IF x.neg THEN -1 ELSE 1) * ToInt(ShiftRight(x.mag, -x.exp).quotient)

\* Math.round(x) for a double x, |x| < 2^31: the integer nearest to x, the
\* greater one at a tie
MathRound(x) ==
    IF x.mag = <<>> THEN 0
    ELSE IF x.exp >= 0
    THEN (IF x.neg THEN -1 ELSE 1) * ToInt(x.mag) * 2 ^ x.exp
    ELSE LET s == ShiftRight(x.mag, -x.exp - 1)
             h == DivLimbs(s.quotient, 1, 2, 0, <<>>)
             int == ToInt(h.quotient)
         IN  IF x.neg
             THEN -(int + (IF h.remainder = 1 /\ s.inexact THEN 1 ELSE 0))
             ELSE int + h.remainder

---------------------------------------------------------------------------
(* AsyncStorage: string key -> string value or null *)

MEAL_ENTRIES_KEY == "@meal_entries"

USER_GOALS_KEY == "@user_goals"

StorageKeys == {MEAL_ENTRIES_KEY, USER_GOALS_KEY}

\* getItem resolves to null for a key that holds nothing
NullItem == <<>>

Item(text) == <<text>>

\* an item whose text is not JSON (JSON.parse throws a SyntaxError); the
\* text itself is not represented
UnparsableItem == <<<<>>, <<>>>>

\* JSON.parse accepts the text of the item
parses(item) == Len(item) < 2

\* fault = "read": getItem rejects; fault = "write": setItem rejects
Faults == {"none", "read", "write"}

\* a getItem that resolves to null when the storage cannot be read
getItemNullOnFailure(store, key, fault) ==
    [completion |-> "return",
     value |-> IF fault = "read" THEN NullItem ELSE store[key]]

\* await AsyncStorage.getItem(key)
getItem(store, key, fault) ==
    IF fault = "read"
    THEN [completion |-> "throw"]
    ELSE [completion |-> "return", value |-> store[key]]

\* await AsyncStorage.setItem(key, text): the whole value is replaced, or
\* the call rejects and the store is as before
setItem(store, key, text, fault) ==
    IF fault = "write"
    THEN [completion |-> "throw", store |-> store]
    ELSE [completion |-> "return", store |-> [store EXCEPT ![key] = Item(text)]]

---------------------------------------------------------------------------
(* mealStorage.ts *)

\* findIndex with a predicate that matches no entry
findIndexNoMatch(entries, id) == -1

\* existingEntries.findIndex(entry => entry.id === id), 0-based, -1 if none
findIndex(entries, id) ==
    IF \E i \in DOMAIN entries : Get(entries[i], "id") = id
    THEN (CHOOSE i \in DOMAIN entries :
            /\ Get(entries[i], "id") = id
            /\ \A j \in 1..(i - 1) : Get(entries[j], "id") # id) - 1
    ELSE -1

\* newEntry with a generated id whatever id the entry carries
NewEntryAlwaysGenerated(mealEntry, t) == Spread(mealEntry, "id", toString(t))

\* newEntry = { ...mealEntry, id: mealEntry.id || Date.now().toString() }
NewEntry(mealEntry, t) ==
    Spread(mealEntry, "id",
           IF Truthy(Get(mealEntry, "id")) THEN mealEntry.id ELSE toString(t))

\* the push without the lookup of the id
UpsertAlwaysPush(existingEntries, newEntry) == Append(existingEntries, newEntry)

\* the lookup without the assignment to the slot found
UpsertKeepExisting(existingEntries, newEntry) ==
    IF newEntry.id \in {Get(existingEntries[i], "id") : i \in DOMAIN existingEntries}
    THEN existingEntries
    ELSE Append(existingEntries, newEntry)

\* the array after the update-or-push of newEntry
Upsert(existingEntries, newEntry) ==
    LET entryIndex == findIndex(existingEntries, newEntry.id)
    IN  IF entryIndex # -1
        THEN [existingEntries EXCEPT ![entryIndex + 1] = newEntry]
        ELSE Append(existingEntries, newEntry)

\* existingEntriesJson ? JSON.parse(existingEntriesJson) : []
ExistingEntries(item) == IF item # NullItem THEN parse(item[1]) ELSE <<>>

\* a removal that cuts the array at the entry found
FilterOutTruncating(entries, mealId) ==
    IF findIndex(entries, mealId) = -1 THEN entries
    ELSE SubSeq(entries, 1, findIndex(entries, mealId))

\* the filter with === for !==
FilterKeepMatching(entries, mealId) ==
    SelectSeq(entries, LAMBDA entry : Get(entry, "id") = mealId)

\* existingEntries.filter(entry => entry.id !== mealId)
FilterOut(entries, mealId) ==
    SelectSeq(entries, LAMBDA entry : Get(entry, "id") # mealId)

\* a function body without try/catch: the rejection propagates
CatchMissing(body, v) == body

\* catch (error) { console.error(...); return v; }
Catch(body, v) ==
    IF body.completion = "throw"
    THEN [body EXCEPT !.completion = "return", !.value = v]
    ELSE body

\* the try block of saveMealEntry
saveMealEntryTry(store, mealEntry, t, fault) ==
    LET read == getItem(store, MEAL_ENTRIES_KEY, fault)
    IN  IF read.completion = "throw" \/ ~parses(read.value)
        THEN [completion |-> "throw", value |-> Undefined, store |-> store]
        ELSE LET updated == Upsert(ExistingEntries(read.value), NewEntry(mealEntry, t))
                 write == setItem(store, MEAL_ENTRIES_KEY, stringifyArray(updated), fault)
             IN  IF write.completion = "throw"
                 THEN [completion |-> "throw", value |-> Undefined, store |-> write.store]
                 ELSE [completion |-> "return", value |-> TRUE, store |-> write.store]

saveMealEntry(store, mealEntry, t, fault) ==
    Catch(saveMealEntryTry(store, mealEntry, t, fault), FALSE)

\* the try block of deleteMealEntry
deleteMealEntryTry(store, mealId, fault) ==
    LET read == getItem(store, MEAL_ENTRIES_KEY, fault)
    IN  IF read.completion = "throw" \/ ~parses(read.value)
        THEN [completion |-> "throw", value |-> Undefined, store |-> store]
        ELSE LET updatedEntries == FilterOut(ExistingEntries(read.value), mealId)
                 write == setItem(store, MEAL_ENTRIES_KEY, stringifyArray(updatedEntries), fault)
             IN  IF write.completion = "throw"
                 THEN [completion |-> "throw", value |-> Undefined, store |-> write.store]
                 ELSE [completion |-> "return", value |-> TRUE, store |-> write.store]

deleteMealEntry(store, mealId, fault) ==
    Catch(deleteMealEntryTry(store, mealId, fault), FALSE)

\* getMealEntries: the entries, or [] when nothing is stored or the read fails
getMealEntries(store, fault) ==
    LET read == getItem(store, MEAL_ENTRIES_KEY, fault)
    IN  IF read.completion = "throw" \/ ~parses(read.value) THEN <<>>
        ELSE ExistingEntries(read.value)

\* the try block of saveUserGoals
saveUserGoalsTry(store, goals, fault) ==
    LET write == setItem(store, USER_GOALS_KEY, stringifyObject(goals), fault)
    IN  IF write.completion = "throw"
        THEN [completion |-> "throw", value |-> Undefined, store |-> write.store]
        ELSE [completion |-> "return", value |-> TRUE, store |-> write.store]

saveUserGoals(store, goals, fault) ==
    Catch(saveUserGoalsTry(store, goals, fault), FALSE)

\* the defaultGoals literal, and the literal of the catch block
defaultGoals ==
    [calorieTarget |-> 2000, proteinTarget |-> 80, carbTarget |-> 250, fatTarget |-> 70]

\* getUserGoals
getUserGoals(store, fault) ==
    LET read == getItem(store, USER_GOALS_KEY, fault)
    IN  IF read.completion = "throw" THEN defaultGoals
        ELSE IF read.value # NullItem THEN parse(read.value[1]) ELSE defaultGoals

---------------------------------------------------------------------------
(* Inputs *)

\* entries without id as callers build them: the first as
\* ImageDetectionModal.handleSave does when no image was taken (image is
\* imageUri || undefined), the second carries an image and no timestamp
Contents ==
    { [food |-> "apple", calories |-> 300, protein |-> 10, carbs |-> 40,
       fat |-> 5, notes |-> "", image |-> Undefined,
       timestamp |-> toISOString(1)],
      [food |-> "rice", calories |-> 450, protein |-> 8, carbs |-> 90,
       fat |-> 2, notes |-> "lunch", image |-> "file:///meal.jpg"] }

\* ids as the callers make them: Date.now().toString()
CallerIds == {toString(t) : t \in 1..MaxClock}

\* entries handed to saveMealEntry: without id, with an id, with an empty
\* id; as built by a form or as read back from the store
CraftedEntries ==
    Contents
        \cup {Spread(c, "id", id) : c \in Contents, id \in CallerIds}
        \cup {Spread(c, "id", "") : c \in {d \in Contents : d.food = "rice"}}

EntryInputs == CraftedEntries \cup {stringifyObject(e) : e \in CraftedEntries}

\* goals as GoalSettingsModal.handleSave builds them
GoalInputs ==
    { [calorieTarget |-> 2900, proteinTarget |-> 218, carbTarget |-> 326,
       fatTarget |-> 81, goalType |-> "gain", activityLevel |-> "high"] }

---------------------------------------------------------------------------
(* Spec: the Entry Store under a caller that awaits each call *)

NoCall ==
    [op |-> "none", arg |-> <<>>, fault |-> "none", at |-> 0,
     pre |-> [k \in StorageKeys |-> NullItem],
     completion |-> "return", value |-> <<>>,
     repeat |-> FALSE, restores |-> FALSE,
     base |-> [k \in StorageKeys |-> NullItem],
     generated |-> Undefined, fresh |-> TRUE]

\* the record of a call: what was passed, what the storage did, what came back
Call(op, arg, fault, r) ==
    [op |-> op, arg |-> <<arg>>, fault |-> fault, at |-> now,
     pre |-> AsyncStorage,
     completion |-> r.completion, value |-> <<r.value>>,
     repeat |-> FALSE, restores |-> FALSE, base |-> AsyncStorage,
     generated |-> Undefined, fresh |-> TRUE]

\* a slot that runs no handler
Idle ==
    [pc |-> "idle", kind |-> "none", arg |-> <<>>, pending |-> <<>>,
     completion |-> "return", value |-> <<>>, persisted |-> FALSE,
     notice |-> "none"]

\* GoalSettingsModal: the useState initial values; derived is the last run
\* of calculateCalories, notice is what the last handleSave showed
GoalFormInitial ==
    [calorieTarget |-> <<"2", "0", "0", "0">>, proteinTarget |-> <<"8", "0">>,
     carbTarget |-> <<"2", "5", "0">>, fatTarget |-> <<"7", "0">>,
     goalType |-> "maintain", activityLevel |-> "moderate",
     derived |-> <<>>, notice |-> "none"]

\* the useState initial values of a meal form
BlankForm ==
    [food |-> <<>>, calories |-> <<>>, protein |-> <<>>, carbs |-> <<>>,
     fat |-> <<>>, notes |-> ""]

\* HomeScreen with no meal form visible: capturedImage and selectedMeal are
\* null; add and edit are the states of ImageDetectionModal and
\* EditMealModal; saved tells which form handed over the last entry
NoMealForm ==
    [visible |-> "none", imageUri |-> Undefined, mealData |-> <<>>,
     add |-> BlankForm, edit |-> BlankForm, saved |-> "none"]

\* the device's time zone (minutes east of UTC); nothing was computed yet
NoReport == [offset |-> 0, daily |-> <<>>, weekly |-> <<>>]

\* ImageDetectionModal as it mounts: hidden, the useState initial values;
\* pending counts the analyzeImage calls in flight, analyses is 1 when one
\* was started since the modal became visible, outcome tells how the last
\* one ended
NoPhoto ==
    [visible |-> FALSE, imageUri |-> Undefined, form |-> BlankForm,
     isAnalyzing |-> FALSE, analysisComplete |-> FALSE, pending |-> 0,
     analyses |-> 0, outcome |-> "none"]

\* what the last render of BarcodeScanner saw
NothingScanned ==
    [visible |-> FALSE, scanned |-> FALSE, scanning |-> TRUE, loading |-> FALSE]

\* BarcodeScanner as it mounts, hidden: isBarcodeModalVisible of HomeScreen
\* and the useState initial values; rendered is what the handlers of the
\* last render closed over; lookups are the barcodes of the fetches in
\* flight; offered is what onProductScanned got, delivered counts these
\* since the user last chose to scan (none, one, more); outcome tells how
\* the last fetch ended
NoScanner ==
    [version |-> "mock", visible |-> FALSE, scanned |-> FALSE, scanning |-> TRUE,
     loading |-> FALSE, rendered |-> NothingScanned, lookups |-> <<>>,
     alert |-> FALSE, offered |-> <<>>, delivered |-> 0, outcome |-> "none"]

DARK_MODE_KEY == "@settings_dark_mode"

\* ThemeProvider as it mounts: useState(false); storage is the item under
\* DARK_MODE_KEY, queue the AsyncStorage calls not yet served (they are
\* served in the order they were made), load the position of
\* loadThemePreference and read what its getItem resolved to, toggles the
\* number of toggleTheme calls, failed whether a storage call rejected
ThemeInitial ==
    [isDarkMode |-> FALSE, storage |-> [k \in {DARK_MODE_KEY} |-> NullItem],
     queue |-> <<>>, load |-> "idle", read |-> NullItem, toggles |-> 0,
     failed |-> FALSE]

\* HomeScreen as it mounts: the useState initial values; screen is what it
\* returns (itself, or MealHistory or SettingsScreen in its place), loaded
\* whether a loadData has completed
HomeInitial ==
    [screen |-> "home", loaded |-> FALSE, meals |-> <<>>, todayMeals |-> <<>>,
     nutrition |-> [calories |-> 0, protein |-> 0, carbs |-> 0, fat |-> 0,
                    proteinPercentage |-> 0, carbsPercentage |-> 0,
                    fatPercentage |-> 0],
     userGoals |-> [calorieTarget |-> 2000, proteinTarget |-> 80,
                    carbTarget |-> 250, fatTarget |-> 70,
                    goalType |-> "maintain", activityLevel |-> "moderate"]]

\* no loadWeeklyData is running.  While one runs, pc is the await it stands
\* at, t the instant its dates were made from, goals and allMeals what it
\* read, weeklyData what it pushed so far; summed holds, for every day
\* pushed, the entries calculateDailyNutrition summed for it
NoLoad ==
    [pc |-> "idle", t |-> 0, goals |-> <<>>, allMeals |-> <<>>,
     weeklyData |-> <<>>, summed |-> <<>>]

InitOthers ==
    /\ photo = NoPhoto
    /\ scanner = NoScanner
    /\ theme = ThemeInitial
    /\ home = HomeInitial
    /\ loader = NoLoad

Init ==
    /\ AsyncStorage = [k \in StorageKeys |-> NullItem]
    /\ now = 1
    /\ last = NoCall
    /\ handlers = [p \in 1..NumHandlers |-> Idle]
    /\ meals = <<>>
    /\ acked = {}
    /\ goalForm = GoalFormInitial
    /\ mealForm = NoMealForm
    /\ report = NoReport
    /\ InitOthers

\* time passes between two reads of Date.now()
Tick ==
    /\ now < MaxClock
    /\ now' = now + 1
    /\ UNCHANGED <<AsyncStorage, last, handlers, meals, acked, screens>>

CallSaveMealEntry ==
    \E mealEntry \in EntryInputs, fault \in Faults :
        LET r == saveMealEntry(AsyncStorage, mealEntry, now, fault)
            generates == fault # "read" /\ ~Truthy(Get(mealEntry, "id"))
            restores ==
                /\ last.op = "deleteMealEntry"
                /\ last.value = <<TRUE>>
                /\ mealEntry \in Range(getMealEntries(last.pre, "none"))
                /\ last.arg = <<Get(mealEntry, "id")>>
        IN  /\ AsyncStorage' = r.store
            /\ last' = [Call("saveMealEntry", mealEntry, fault, r) EXCEPT
                          !.repeat = /\ last.op = "saveMealEntry"
                                     /\ last.value = <<TRUE>>
                                     /\ last.arg = <<mealEntry>>,
                          !.restores = restores,
                          !.base = IF restores THEN last.pre ELSE AsyncStorage,
                          !.generated = IF generates THEN toString(now) ELSE Undefined,
                          !.fresh = generates => toString(now) # last.generated]
            /\ UNCHANGED <<now, handlers, meals, acked, screens>>

CallDeleteMealEntry ==
    \E mealId \in CallerIds, fault \in Faults :
        LET r == deleteMealEntry(AsyncStorage, mealId, fault)
        IN  /\ AsyncStorage' = r.store
            /\ last' = Call("deleteMealEntry", mealId, fault, r)
            /\ UNCHANGED <<now, handlers, meals, acked, screens>>

CallSaveUserGoals ==
    \E goals \in GoalInputs, fault \in {"none", "write"} :
        LET r == saveUserGoals(AsyncStorage, goals, fault)
        IN  /\ AsyncStorage' = r.store
            /\ last' = Call("saveUserGoals", goals, fault, r)
            /\ UNCHANGED <<now, handlers, meals, acked, screens>>

CallGetMealEntries ==
    \E fault \in {"none", "read"} :
        /\ last' = Call("getMealEntries", Undefined, fault,
                        [completion |-> "return",
                         value |-> getMealEntries(AsyncStorage, fault)])
        /\ UNCHANGED <<AsyncStorage, now, handlers, meals, acked, screens>>

CallGetUserGoals ==
    \E fault \in {"none", "read"} :
        /\ last' = Call("getUserGoals", Undefined, fault,
                        [completion |-> "return",
                         value |-> getUserGoals(AsyncStorage, fault)])
        /\ UNCHANGED <<AsyncStorage, now, handlers, meals, acked, screens>>

Next ==
    \/ Tick
    \/ CallSaveMealEntry
    \/ CallDeleteMealEntry
    \/ CallSaveUserGoals
    \/ CallGetMealEntries
    \/ CallGetUserGoals

Spec == Init /\ [][Next]_vars

---------------------------------------------------------------------------
(* SpecUI: the handlers of HomeScreen and GoalSettingsModal.  A handler is *)
(* an async function: it runs up to its next await, and other handlers     *)
(* started by the user run in between.                                     *)

\* what the user typed into a meal form
FormFields ==
    { [food |-> "apple", calories |-> 300, protein |-> 10, carbs |-> 40,
       fat |-> 5, notes |-> ""],
      [food |-> "rice", calories |-> 450, protein |-> 8, carbs |-> 90,
       fat |-> 2, notes |-> "lunch"] }

\* ImageDetectionModal.handleSave: the mealEntry object
ImageDetectionModalEntry(form, imageUri, t) ==
    [id |-> toString(t), food |-> form.food, calories |-> form.calories,
     protein |-> form.protein, carbs |-> form.carbs, fat |-> form.fat,
     notes |-> form.notes, image |-> imageUri, timestamp |-> toISOString(t)]

\* the object of the edit form without the spread of mealData
EditMealModalEntryNoSpread(mealData, form) == form

\* EditMealModal.handleSave: { ...mealData, food, calories, ..., notes }
EditMealModalEntry(mealData, form) ==
    [g \in DOMAIN mealData \cup DOMAIN form |->
        IF g \in DOMAIN form THEN form[g] ELSE mealData[g]]

Slots == 1..NumHandlers

InFlight(kind, arg, pc) ==
    [Idle EXCEPT !.pc = pc, !.kind = kind, !.arg = <<arg>>]

\* a new handler invocation takes the first free slot
Free(p) ==
    /\ handlers[p].pc = "idle"
    /\ \A q \in 1..(p - 1) : handlers[q].pc # "idle"

\* an operation on this id starts: what was acknowledged for the id is from
\* now on "removed or edited afterwards"
Superseded(id) == {e \in acked : e.id # id}

\* the user confirms the add-meal form: onSave(mealEntry) = handleSaveMeal,
\* which runs up to saveMealEntry's getItem
StartSaveMeal(p) ==
    /\ Free(p)
    /\ \E form \in {f \in FormFields : f.food = "apple"} :
         LET mealEntry == ImageDetectionModalEntry(form, Undefined, now)
         IN  /\ handlers' = [handlers EXCEPT
                               ![p] = InFlight("handleSaveMeal", mealEntry, "getItem")]
             /\ acked' = Superseded(mealEntry.id)
    /\ UNCHANGED <<AsyncStorage, now, last, meals, screens>>

\* the user saves the edit form of a displayed meal: handleUpdateMeal
StartUpdateMeal(p) ==
    /\ Free(p)
    /\ \E i \in DOMAIN meals, form \in FormFields :
         LET updatedMeal == EditMealModalEntry(meals[i], form)
         IN  /\ handlers' = [handlers EXCEPT
                               ![p] = InFlight("handleUpdateMeal", updatedMeal, "getItem")]
             /\ acked' = Superseded(updatedMeal.id)
    /\ UNCHANGED <<AsyncStorage, now, last, meals, screens>>

\* the user confirms the delete of a displayed meal: handleDeleteMeal
StartDeleteMeal(p) ==
    /\ Free(p)
    /\ \E i \in DOMAIN meals :
         /\ handlers' = [handlers EXCEPT
                           ![p] = InFlight("handleDeleteMeal", meals[i].id, "getItem")]
         /\ acked' = Superseded(meals[i].id)
    /\ UNCHANGED <<AsyncStorage, now, last, meals, screens>>

\* GoalSettingsModal.handleSave up to saveUserGoals' setItem
StartSaveGoals(p) ==
    /\ Free(p)
    /\ \E goals \in GoalInputs :
         handlers' = [handlers EXCEPT
                        ![p] = InFlight("handleSave", goals, "setItem")]
    /\ UNCHANGED <<AsyncStorage, now, last, meals, acked, screens>>

\* the store call left its try block with a rejection: its catch returns false
Rejected(h) ==
    LET caught == Catch([completion |-> "throw", value |-> Undefined], FALSE)
    IN  [h EXCEPT !.pc = IF h.kind = "handleSave" THEN "onSave" ELSE "loadMeals",
                  !.arg = <<>>, !.pending = <<>>,
                  !.completion = caught.completion,
                  !.value = <<caught.value>>]

\* getItem of saveMealEntry / deleteMealEntry settles; the code up to setItem runs
GetItemStep(p) ==
    LET h == handlers[p] IN
    /\ h.pc = "getItem"
    /\ \E fault \in {"none", "read"} :
         LET read == getItem(AsyncStorage, MEAL_ENTRIES_KEY, fault)
         IN  handlers' = [handlers EXCEPT ![p] =
                 IF read.completion = "throw" THEN Rejected(h)
                 ELSE [h EXCEPT
                         !.pc = "setItem",
                         !.pending =
                            IF h.kind = "handleDeleteMeal"
                            THEN FilterOut(ExistingEntries(read.value), h.arg[1])
                            ELSE Upsert(ExistingEntries(read.value),
                                        NewEntry(h.arg[1], now))]]
    /\ UNCHANGED <<AsyncStorage, now, last, meals, acked, screens>>

\* setItem settles and the store call returns
SetItemStep(p) ==
    LET h == handlers[p] IN
    /\ h.pc = "setItem"
    /\ \E fault \in {"none", "write"} :
         LET write == IF h.kind = "handleSave"
                      THEN setItem(AsyncStorage, USER_GOALS_KEY,
                                   stringifyObject(h.arg[1]), fault)
                      ELSE setItem(AsyncStorage, MEAL_ENTRIES_KEY,
                                   stringifyArray(h.pending), fault)
         IN  /\ AsyncStorage' = write.store
             /\ handlers' = [handlers EXCEPT ![p] =
                    IF write.completion = "throw" THEN Rejected(h)
                    ELSE [h EXCEPT
                            !.pc = IF h.kind = "handleSave" THEN "onSave" ELSE "loadMeals",
                            !.arg = <<>>, !.pending = <<>>,
                            !.value = <<TRUE>>,
                            !.persisted = TRUE]]
             /\ acked' =
                    IF write.completion = "throw" \/ h.kind = "handleSave" THEN acked
                    ELSE IF h.kind = "handleDeleteMeal" THEN Superseded(h.arg[1])
                    ELSE Superseded(h.arg[1].id)
                            \cup {stringifyObject(NewEntry(h.arg[1], now))}
    /\ UNCHANGED <<now, last, meals, screens>>

\* loadData: loadMeals reads the entries into the meals state
LoadMealsStep(p) ==
    LET h == handlers[p] IN
    /\ h.pc = "loadMeals"
    /\ \E fault \in {"none", "read"} :
         meals' = getMealEntries(AsyncStorage, fault)
    /\ handlers' = [handlers EXCEPT ![p] = [h EXCEPT !.pc = "alert"]]
    /\ UNCHANGED <<AsyncStorage, now, last, acked, screens>>

\* the rest of loadData (loadNutrition, loadGoals: reads only) and the
\* Alert of the handler: the catch branch is taken when an awaited call threw
AlertStep(p) ==
    LET h == handlers[p] IN
    /\ h.pc = "alert"
    /\ handlers' = [handlers EXCEPT ![p] =
            [h EXCEPT !.pc = "done",
                      !.notice = IF h.completion = "throw" THEN "error" ELSE "success"]]
    /\ UNCHANGED <<AsyncStorage, now, last, meals, acked, screens>>

\* GoalSettingsModal.handleSave after the await: onSave(goals); onClose(),
\* or the Alert of its catch
OnSaveStep(p) ==
    LET h == handlers[p] IN
    /\ h.pc = "onSave"
    /\ handlers' = [handlers EXCEPT ![p] =
            [h EXCEPT !.pc = "done",
                      !.notice = IF h.completion = "throw" THEN "error" ELSE "onSave"]]
    /\ UNCHANGED <<AsyncStorage, now, last, meals, acked, screens>>

\* the user dismisses the alert; the slot is free for the next handler
Dismiss(p) ==
    /\ handlers[p].pc = "done"
    /\ handlers' = [handlers EXCEPT ![p] = Idle]
    /\ UNCHANGED <<AsyncStorage, now, last, meals, acked, screens>>

NextUI ==
    \/ Tick
    \/ \E p \in Slots : StartSaveMeal(p)
    \/ \E p \in Slots : StartUpdateMeal(p)
    \/ \E p \in Slots : StartDeleteMeal(p)
    \/ \E p \in Slots : StartSaveGoals(p)
    \/ \E p \in Slots : GetItemStep(p)
    \/ \E p \in Slots : SetItemStep(p)
    \/ \E p \in Slots : LoadMealsStep(p)
    \/ \E p \in Slots : AlertStep(p)
    \/ \E p \in Slots : OnSaveStep(p)
    \/ \E p \in Slots : Dismiss(p)

SpecUI == Init /\ [][NextUI]_vars

---------------------------------------------------------------------------
(* Properties of the Entry Store (Spec).  In a state of Spec, last is the  *)
(* call that completed most recently, last.pre the storage it started     *)
(* from, and AsyncStorage the storage it left.                             *)

\* what getMealEntries returns now, and what it returned before the last call
Stored == getMealEntries(AsyncStorage, "none")

StoredBefore == getMealEntries(last.pre, "none")

Ids(entries) == {Get(entries[i], "id") : i \in DOMAIN entries}

Returned(v) == last.completion = "return" /\ last.value = <<v>>

SavedOk == last.op = "saveMealEntry" /\ Returned(TRUE)

\* the properties of a meal entry other than id
ContentProps ==
    {"food", "notes", "image", "timestamp"}

NumberProps ==
    {"calories", "protein", "carbs", "fat"}

\* x has the content of the entry e that was passed to saveMealEntry
SameContent(x, e) ==
    /\ \A f \in ContentProps : Get(x, f) = Get(e, f)
    /\ \A f \in NumberProps : (f \in DOMAIN x) = (f \in DOMAIN e)
    /\ \A f \in NumberProps \cap DOMAIN x \cap DOMAIN e : x[f] = e[f]

\* C1: the ids of the stored collection are pairwise distinct; a successful
\* saveMealEntry with an id that is stored replaces that entry in place (same
\* length, same position, every other entry as it was), and with an id that
\* is not stored appends exactly one entry to the collection as it was.
C1_UniqueIds ==
    /\ \A i, j \in DOMAIN Stored :
          i # j => Get(Stored[i], "id") # Get(Stored[j], "id")
    /\ (SavedOk /\ Truthy(Get(last.arg[1], "id"))) =>
          LET e == last.arg[1] IN
          IF e.id \in Ids(StoredBefore)
          THEN /\ Len(Stored) = Len(StoredBefore)
               /\ \A i \in DOMAIN StoredBefore :
                     IF StoredBefore[i].id = e.id
                     THEN Stored[i].id = e.id /\ SameContent(Stored[i], e)
                     ELSE Stored[i] = StoredBefore[i]
          ELSE /\ Len(Stored) = Len(StoredBefore) + 1
               /\ SubSeq(Stored, 1, Len(StoredBefore)) = StoredBefore
               /\ Stored[Len(Stored)].id = e.id
               /\ SameContent(Stored[Len(Stored)], e)

\* a stored entry was replaced by one with other content, between two others
C1_Witness ==
    /\ SavedOk
    /\ Len(Stored) >= 2
    /\ Truthy(Get(last.arg[1], "id"))
    /\ last.arg[1].id \in Ids(StoredBefore)
    /\ Stored # StoredBefore

\* C3: every saveMealEntry call with an entry that lacks an id assigns an id
\* that differs from the id the preceding call assigned, and a successful one
\* adds a separate entry to the stored collection.
C3_GeneratedIdsDistinct ==
    (last.op = "saveMealEntry" /\ last.generated # Undefined) =>
        /\ last.fresh
        /\ Returned(TRUE) => Len(Stored) = Len(StoredBefore) + 1

\* C4: a saveMealEntry, deleteMealEntry or saveUserGoals call always returns
\* true or false (it never throws); when its storage operation failed it
\* returns false and the storage is as it was before the call; it returns
\* true only when no storage operation failed and the key holds a value.
C4_FailureIsExplicit ==
    last.op \in {"saveMealEntry", "deleteMealEntry", "saveUserGoals"} =>
        /\ last.completion = "return"
        /\ last.value \in {<<TRUE>>, <<FALSE>>}
        /\ last.fault # "none" => (Returned(FALSE) /\ AsyncStorage = last.pre)
        /\ Returned(TRUE) =>
              /\ last.fault = "none"
              /\ AsyncStorage[IF last.op = "saveUserGoals"
                              THEN USER_GOALS_KEY ELSE MEAL_ENTRIES_KEY] # NullItem

\* a write failed over a non-empty collection and stored goals
C4_Witness ==
    /\ last.op = "saveMealEntry"
    /\ last.fault = "write"
    /\ Returned(FALSE)
    /\ Len(Stored) >= 1
    /\ AsyncStorage[USER_GOALS_KEY] # NullItem

\* C6: getUserGoals returns the stored goals when a record exists and the
\* read succeeds, and otherwise the default record of six properties:
\* 2000, 80, 250, 70, goalType 'maintain', activityLevel 'moderate'.
C6_DocumentedDefault ==
    last.op = "getUserGoals" =>
        IF last.fault = "none" /\ last.pre[USER_GOALS_KEY] # NullItem
        THEN last.value = <<last.pre[USER_GOALS_KEY][1]>>
        ELSE last.value =
                <<[calorieTarget |-> 2000, proteinTarget |-> 80,
                   carbTarget |-> 250, fatTarget |-> 70,
                   goalType |-> "maintain", activityLevel |-> "moderate"]>>

\* some stored entry is the round trip of the saved entry: the same content,
\* a populated id, and the id of the saved entry if that had one
RoundTrip(e) ==
    \E i \in DOMAIN Stored :
        /\ SameContent(Stored[i], e)
        /\ Truthy(Get(Stored[i], "id"))
        /\ Truthy(Get(e, "id")) => Stored[i].id = e.id

\* C7 (as amended): after a successful saveMealEntry(e), a successful read
\* of getMealEntries holds an entry with the content of e in every property,
\* with a populated id (e's id when e has one); its timestamp is populated
\* exactly when e carried a timestamp.
C7_RoundTrip ==
    SavedOk =>
        /\ RoundTrip(last.arg[1])
        /\ \A i \in DOMAIN Stored :
              Stored[i].id = (IF Truthy(Get(last.arg[1], "id"))
                              THEN last.arg[1].id ELSE last.generated)
              => (Truthy(Get(Stored[i], "timestamp"))
                    <=> Truthy(Get(last.arg[1], "timestamp")))

\* an entry without id and without timestamp was saved
C7_Witness ==
    /\ SavedOk
    /\ ~Truthy(Get(last.arg[1], "id"))
    /\ ~Truthy(Get(last.arg[1], "timestamp"))
    /\ Len(Stored) >= 2

\* C7 (as claimed): the entry read back has a populated id and a populated
\* timestamp for every entry passed, also one without timestamp.
C7_TimestampPopulated ==
    SavedOk =>
        \E i \in DOMAIN Stored :
            /\ SameContent(Stored[i], last.arg[1])
            /\ Truthy(Get(Stored[i], "id"))
            /\ Truthy(Get(Stored[i], "timestamp"))

\* C8: a successful saveMealEntry of an entry with an id, directly after a
\* successful saveMealEntry of the same entry, leaves getMealEntries as the
\* first call left it.
C8_Idempotent ==
    (SavedOk /\ last.repeat /\ Truthy(Get(last.arg[1], "id"))) =>
        Stored = StoredBefore

\* the same entry was saved twice in a row into a collection that holds others
C8_Witness ==
    /\ SavedOk
    /\ last.repeat
    /\ Truthy(Get(last.arg[1], "id"))
    /\ Len(Stored) >= 2

\* C9: deleteMealEntry returns true when the storage does not fail; after it
\* returned true no entry has the id, and when the id was not stored
\* getMealEntries returns what it returned before.
C9_Delete ==
    last.op = "deleteMealEntry" =>
        /\ last.fault = "none" => Returned(TRUE)
        /\ Returned(TRUE) =>
              /\ last.arg[1] \notin Ids(Stored)
              /\ last.arg[1] \notin Ids(StoredBefore) => Stored = StoredBefore

\* an id that is not stored was deleted from a non-empty collection
C9_Witness ==
    /\ last.op = "deleteMealEntry"
    /\ Returned(TRUE)
    /\ last.arg[1] \notin Ids(StoredBefore)
    /\ Len(StoredBefore) >= 1

\* C10: a successful saveMealEntry(e) directly after a successful
\* deleteMealEntry(e.id), e being an entry stored before the delete, leaves
\* the set of entries that was stored before the delete.
C10_DeleteThenSaveRestores ==
    (SavedOk /\ last.restores) =>
        Range(Stored) = Range(getMealEntries(last.base, "none"))

\* an entry that was not the last of the collection was deleted and saved again
C10_Witness ==
    /\ SavedOk
    /\ last.restores
    /\ Len(Stored) >= 2
    /\ Stored # getMealEntries(last.base, "none")

---------------------------------------------------------------------------
(* Properties of the handlers (SpecUI) *)

AllSettled == \A p \in Slots : handlers[p].pc \in {"idle", "done"}

\* C2: once all operations have finished, every entry whose saveMealEntry
\* returned true and whose id no later operation removed or edited is in
\* the stored collection.
C2_NoLostUpdate ==
    AllSettled => \A e \in acked : e \in Range(Stored)

\* C5: a handler reports success (the success alert, or onSave/onClose of the
\* goal form) only if its write was persisted, and a handler whose write was
\* not persisted notifies the user of the failure.
C5_FailureIsReported ==
    \A p \in Slots :
        handlers[p].pc = "done" =>
            /\ handlers[p].notice \in {"success", "onSave"} => handlers[p].persisted
            /\ ~handlers[p].persisted => handlers[p].notice = "error"

---------------------------------------------------------------------------
(* GoalSettingsModal.tsx.  The texts of the form are sequences of          *)
(* characters.                                                             *)

\* n.toString() for an integer n, as a text
RECURSIVE toChars(_)
toChars(n) ==
    IF n < 0 THEN <<"-">> \o toChars(-n)
    ELSE IF n < 10 THEN <<Digits[n + 1]>>
    ELSE toChars(n \div 10) \o <<Digits[(n % 10) + 1]>>

IsDigit(c) == c \in Range(Digits)

DigitValue(c) == CHOOSE d \in 0..9 : Digits[d + 1] = c

\* String.prototype.trim, the leading part
RECURSIVE TrimStart(_)
TrimStart(text) ==
    IF text # <<>> /\ text[1] = " " THEN TrimStart(Tail(text)) ELSE text

\* the longest prefix of decimal digits
RECURSIVE LeadingDigits(_)
LeadingDigits(text) ==
    IF text # <<>> /\ IsDigit(text[1])
    THEN <<text[1]>> \o LeadingDigits(Tail(text))
    ELSE <<>>

RECURSIVE DecimalValue(_)
DecimalValue(digits) ==
    IF digits = <<>> THEN 0
    ELSE 10 * DecimalValue(SubSeq(digits, 1, Len(digits) - 1))
            + DigitValue(digits[Len(digits)])

\* parseInt(text) for a text without the prefix 0x: white space, a sign and
\* the digits up to the first other character; NaN when there is no digit
parseInt(text) ==
    LET t == TrimStart(text)
        signed == t # <<>> /\ t[1] \in {"-", "+"}
        digits == LeadingDigits(IF signed THEN Tail(t) ELSE t)
    IN  IF digits = <<>> THEN NaN
        ELSE IF signed /\ t[1] = "-" THEN -DecimalValue(digits)
        ELSE DecimalValue(digits)

\* the literals 0.3, 0.45 and 0.25: the doubles nearest to the decimals
ProteinShare == DivInt(FromInt(3), 10)

CarbShare == DivInt(FromInt(45), 100)

FatShare == DivInt(FromInt(25), 100)

\* baseCalories initialised to 2200
BaseCaloriesFrom2200(activityLevel) ==
    IF activityLevel = "low" THEN 1800
    ELSE IF activityLevel = "high" THEN 2400
    ELSE 2200

\* baseCalories after the first if / else if
BaseCalories(activityLevel) ==
    IF activityLevel = "low" THEN 1800
    ELSE IF activityLevel = "high" THEN 2400
    ELSE 2000

\* a macro-nutrient target rounded down
GramsTruncated(baseCalories, share, calsPerGram) ==
    MathTrunc(DivInt(MulInt(share, baseCalories), calsPerGram))

\* Math.round((baseCalories * share) / calsPerGram)
Grams(baseCalories, share, calsPerGram) ==
    MathRound(DivInt(MulInt(share, baseCalories), calsPerGram))

\* calculateCalories for the goalType and activityLevel it reads: the four
\* numbers whose toString() it sets
calculateCalories(goalType, activityLevel) ==
    LET baseCalories ==
            BaseCalories(activityLevel)
                + (IF goalType = "lose" THEN -500
                   ELSE IF goalType = "gain" THEN 500 ELSE 0)
    IN  [calorieTarget |-> baseCalories,
         proteinTarget |-> Grams(baseCalories, ProteinShare, 4),
         carbTarget |-> Grams(baseCalories, CarbShare, 4),
         fatTarget |-> Grams(baseCalories, FatShare, 9)]

GoalTypes == {"lose", "maintain", "gain"}

ActivityLevels == {"low", "moderate", "high"}

TargetFields == <<"calorieTarget", "proteinTarget", "carbTarget", "fatTarget">>

\* what the user types into a target field: zero, no number, nothing
TargetTexts ==
    [calorieTarget |-> <<"0">>, carbTarget |-> <<"a", "b", "c">>,
     fatTarget |-> <<>>]

\* calculateCalories for every goalType and activityLevel
DerivedTargets ==
    [g \in GoalTypes |-> [a \in ActivityLevels |-> calculateCalories(g, a)]]

\* the form after calculateCalories ran in a render with this goalType and
\* activityLevel
Calculated(form) ==
    LET c == DerivedTargets[form.goalType][form.activityLevel]
    IN  [form EXCEPT
           !.calorieTarget = toChars(c.calorieTarget),
           !.proteinTarget = toChars(c.proteinTarget),
           !.carbTarget = toChars(c.carbTarget),
           !.fatTarget = toChars(c.fatTarget),
           !.derived = <<[goalType |-> form.goalType,
                          activityLevel |-> form.activityLevel,
                          calorieTarget |-> c.calorieTarget,
                          proteinTarget |-> c.proteinTarget,
                          carbTarget |-> c.carbTarget,
                          fatTarget |-> c.fatTarget]>>]

\* the goals object of handleSave
FormGoals(form) ==
    [calorieTarget |-> parseInt(form.calorieTarget),
     proteinTarget |-> parseInt(form.proteinTarget),
     carbTarget |-> parseInt(form.carbTarget),
     fatTarget |-> parseInt(form.fatTarget),
     goalType |-> form.goalType, activityLevel |-> form.activityLevel]

\* the modal is mounted and its effect runs loadUserGoals: the setters run
\* up to the first toString() of a target that is null or missing (a
\* TypeError, caught and logged)
loadUserGoals ==
    /\ \E fault \in {"none", "read"} :
         LET goals == getUserGoals(AsyncStorage, fault)
             set(i) == \A j \in 1..i : /\ TargetFields[j] \in DOMAIN goals
                                       /\ goals[TargetFields[j]] # Null
             text(i) == IF set(i) THEN toChars(goals[TargetFields[i]])
                        ELSE GoalFormInitial[TargetFields[i]]
         IN  goalForm' =
                [GoalFormInitial EXCEPT
                   !.calorieTarget = text(1),
                   !.proteinTarget = text(2),
                   !.carbTarget = text(3),
                   !.fatTarget = text(4),
                   !.goalType =
                       IF set(4) /\ Truthy(Get(goals, "goalType"))
                       THEN goals.goalType ELSE "maintain",
                   !.activityLevel =
                       IF set(4) /\ Truthy(Get(goals, "activityLevel"))
                       THEN goals.activityLevel ELSE "moderate"]
    /\ UNCHANGED <<AsyncStorage, now, last, handlers, meals, acked, mealForm, report, others>>

\* onPress of a goal type button: setGoalType(g); calculateCalories().  The
\* calculateCalories of this render reads the goalType and activityLevel of
\* this render; the new goalType is in the state of the next render.
PressGoalType(g) ==
    /\ goalForm' = [Calculated(goalForm) EXCEPT !.goalType = g, !.notice = "none"]
    /\ UNCHANGED <<AsyncStorage, now, last, handlers, meals, acked, mealForm, report, others>>

\* onPress of an activity level button: setActivityLevel(a); calculateCalories()
PressActivityLevel(a) ==
    /\ goalForm' = [Calculated(goalForm) EXCEPT !.activityLevel = a, !.notice = "none"]
    /\ UNCHANGED <<AsyncStorage, now, last, handlers, meals, acked, mealForm, report, others>>

\* onChangeText of the target field f
ChangeTargetText(f) ==
    /\ goalForm' = [goalForm EXCEPT ![f] = TargetTexts[f], !.notice = "none"]
    /\ UNCHANGED <<AsyncStorage, now, last, handlers, meals, acked, mealForm, report, others>>

\* handleSave: the alert when a field is empty; else saveUserGoals(goals),
\* whose result is not looked at, then onSave(goals) and onClose()
handleSave ==
    /\ IF \E i \in DOMAIN TargetFields : goalForm[TargetFields[i]] = <<>>
       THEN /\ goalForm' = [goalForm EXCEPT !.notice = "fill in all fields"]
            /\ UNCHANGED AsyncStorage
       ELSE \E fault \in {"none", "write"} :
              /\ AsyncStorage' =
                    saveUserGoals(AsyncStorage, FormGoals(goalForm), fault).store
              /\ goalForm' = [goalForm EXCEPT !.notice = "onSave"]
    /\ UNCHANGED <<now, last, handlers, meals, acked, mealForm, report, others>>

NextGoals ==
    \/ loadUserGoals
    \/ \E g \in GoalTypes : PressGoalType(g)
    \/ \E a \in ActivityLevels : PressActivityLevel(a)
    \/ \E f \in DOMAIN TargetTexts : ChangeTargetText(f)
    \/ handleSave

SpecGoals == Init /\ [][NextGoals]_vars

---------------------------------------------------------------------------
(* Properties of the goal form (SpecGoals).  goalForm.derived is the last  *)
(* run of calculateCalories: the goalType and activityLevel it read and    *)
(* the four numbers it set.                                                *)

Derived == goalForm.derived[1]

HasDerived == goalForm.derived # <<>>

\* the energy of the derived macro-nutrient targets minus the calorie target
MacroEnergyGap(d) ==
    d.proteinTarget * 4 + d.carbTarget * 4 + d.fatTarget * 9 - d.calorieTarget

\* round(n / d) for integers n >= 0 and d > 0, a half rounded up
RoundedQuotient(n, d) == (2 * n + d) \div (2 * d)

\* C15 (as amended): for all three goal types and all three activity levels
\* the derived calorieTarget is a member of {1300, 1500, 1800, 1900, 2000,
\* 2300, 2400, 2500, 2900}: the base 1800, 2000 or 2400 of the activity
\* level, minus 500, unchanged or plus 500.
C15_CalorieTargets ==
    HasDerived =>
        Derived.calorieTarget \in
            {1300, 1500, 1800, 1900, 2000, 2300, 2400, 2500, 2900}

\* targets were derived for the activity level moderate and the goal gain
C15_Witness ==
    /\ HasDerived
    /\ Derived.activityLevel = "moderate"
    /\ Derived.goalType = "gain"
    /\ Derived.calorieTarget = 2500

\* C15 (as claimed): the derived calorieTarget is a member of {1300, 1800,
\* 1900, 2300, 2400, 2900}.
C15_SixCalorieTargets ==
    HasDerived =>
        Derived.calorieTarget \in {1300, 1800, 1900, 2300, 2400, 2900}

\* C16 (as amended): for all goal types and activity levels the derived
\* targets satisfy |proteinTarget*4 + carbTarget*4 + fatTarget*9 -
\* calorieTarget| <= 6 kcal.
C16_MacroEnergyWithin6 ==
    HasDerived => Abs(MacroEnergyGap(Derived)) <= 6

\* the targets of moderate / lose were derived: 1500, 113, 169, 42, whose
\* energy is 1506
C16_Witness ==
    /\ HasDerived
    /\ Derived.activityLevel = "moderate"
    /\ Derived.goalType = "lose"
    /\ MacroEnergyGap(Derived) = 6

\* C16 (as claimed): the derived targets satisfy |proteinTarget*4 +
\* carbTarget*4 + fatTarget*9 - calorieTarget| <= 3 kcal.
C16_MacroEnergyWithin3 ==
    HasDerived => Abs(MacroEnergyGap(Derived)) <= 3

\* C17: for every pair it reads, calculateCalories computes base calories
\* 1800 for low, 2000 for moderate, 2400 for high; minus 500 for lose,
\* unchanged for maintain, plus 500 for gain; protein = round(cal*0.30/4),
\* carbs = round(cal*0.45/4), fat = round(cal*0.25/9); gain / high gives
\* 2900 kcal, 218 g protein, 326 g carbs and 81 g fat.
C17_DerivedTargets ==
    HasDerived =>
        LET d == Derived
            base == CASE d.activityLevel = "low" -> 1800
                      [] d.activityLevel = "moderate" -> 2000
                      [] d.activityLevel = "high" -> 2400
            cal == CASE d.goalType = "lose" -> base - 500
                     [] d.goalType = "maintain" -> base
                     [] d.goalType = "gain" -> base + 500
        IN  /\ d.calorieTarget = cal
            /\ d.proteinTarget = RoundedQuotient(cal * 30, 4 * 100)
            /\ d.carbTarget = RoundedQuotient(cal * 45, 4 * 100)
            /\ d.fatTarget = RoundedQuotient(cal * 25, 9 * 100)
            /\ (d.goalType = "gain" /\ d.activityLevel = "high") =>
                  /\ d.calorieTarget = 2900
                  /\ d.proteinTarget = 218
                  /\ d.carbTarget = 326
                  /\ d.fatTarget = 81

\* the targets of gain / high were derived and are in the fields of the form
C17_Witness ==
    /\ HasDerived
    /\ Derived.goalType = "gain"
    /\ Derived.activityLevel = "high"
    /\ goalForm.proteinTarget = <<"2", "1", "8">>
    /\ goalForm.carbTarget = <<"3", "2", "6">>
    /\ goalForm.fatTarget = <<"8", "1">>

\* the goals record under USER_GOALS_KEY
StoredGoals == parse(AsyncStorage[USER_GOALS_KEY][1])

\* C18: after any sequence of goal saves through the goal settings form the
\* four targets of the stored goals record are positive numbers (never 0,
\* negative or not-a-number).
C18_StoredTargetsPositive ==
    AsyncStorage[USER_GOALS_KEY] # NullItem =>
        \A i \in DOMAIN TargetFields :
            /\ TargetFields[i] \in DOMAIN StoredGoals
            /\ isFinite(StoredGoals[TargetFields[i]])
            /\ StoredGoals[TargetFields[i]] > 0

---------------------------------------------------------------------------
(* SpecForms: ImageDetectionModal and EditMealModal on HomeScreen, whose   *)
(* handleSaveMeal / handleUpdateMeal are awaited before the next user      *)
(* action.                                                                 *)

\* the string of a text
RECURSIVE Join(_)
Join(text) == IF text = <<>> THEN "" ELSE text[1] \o Join(Tail(text))

RECURSIVE TrimEnd(_)
TrimEnd(text) ==
    IF text # <<>> /\ text[Len(text)] = " "
    THEN TrimEnd(SubSeq(text, 1, Len(text) - 1))
    ELSE text

\* text.trim()
Trim(text) == TrimEnd(TrimStart(text))

\* n || 0 without the substitute
OrNothing(n) == n

\* n || 0 for a number n
OrZero(n) == IF n = NaN \/ n = 0 THEN 0 ELSE n

\* the food names the user types: a blank and a name (a form starts empty)
FoodTexts == {<<" ">>, <<"e", "g", "g">>}

\* the characters of a stored food name
CharsOf(string) == CHOOSE text \in FoodTexts : Join(text) = string

\* the texts the user types into a field (or analyzeImage sets): for the
\* calories the empty text, which is not a number, and a number followed by
\* a unit
FieldTexts ==
    [food |-> FoodTexts,
     calories |-> {<<>>, <<"1", "2", "g">>}]

\* the properties of mealEntry / updatedMeal that handleSave takes from the
\* texts of the form
ParsedForm(form) ==
    [food |-> Join(form.food),
     calories |-> OrZero(parseInt(form.calories)),
     protein |-> OrZero(parseInt(form.protein)),
     carbs |-> OrZero(parseInt(form.carbs)),
     fat |-> OrZero(parseInt(form.fat)),
     notes |-> form.notes]

\* EditMealModal's effect on [mealData]: the form is filled from the meal
PopulatedForm(mealData) ==
    LET text(f) == IF f \in DOMAIN mealData /\ mealData[f] # 0
                   THEN toChars(mealData[f]) ELSE <<>>
    IN  [food |-> IF Truthy(Get(mealData, "food")) THEN CharsOf(mealData.food) ELSE <<>>,
         calories |-> text("calories"), protein |-> text("protein"),
         carbs |-> text("carbs"), fat |-> text("fat"),
         notes |-> IF Truthy(Get(mealData, "notes")) THEN mealData.notes ELSE ""]

\* the Log Meal button opens the add form without a picture;
\* handleCameraAccess opens it with the picture taken
OpenAddForm ==
    /\ mealForm.visible = "none"
    /\ \E imageUri \in {Undefined, "file:///meal.jpg"} :
         mealForm' = [mealForm EXCEPT !.visible = "add",
                                      !.imageUri = imageUri,
                                      !.saved = "none"]
    /\ UNCHANGED <<AsyncStorage, now, last, handlers, meals, acked, goalForm, report, others>>

\* handleEditMeal(meal) for a displayed meal
OpenEditForm ==
    /\ mealForm.visible = "none"
    /\ \E i \in DOMAIN meals :
         mealForm' = [mealForm EXCEPT !.visible = "edit",
                                      !.mealData = <<meals[i]>>,
                                      !.edit = PopulatedForm(meals[i]),
                                      !.saved = "none"]
    /\ UNCHANGED <<AsyncStorage, now, last, handlers, meals, acked, goalForm, report, others>>

\* onChangeText of a field of the visible form
ChangeFormText(f) ==
    /\ mealForm.visible # "none"
    /\ \E text \in FieldTexts[f] :
         mealForm' = [mealForm EXCEPT ![mealForm.visible][f] = text]
    /\ UNCHANGED <<AsyncStorage, now, last, handlers, meals, acked, goalForm, report, others>>

\* onClose of the visible form without a save: HomeScreen forgets the image
\* and the selected meal, the add form keeps its texts
CloseForm ==
    /\ mealForm.visible # "none"
    /\ mealForm' = [mealForm EXCEPT !.visible = "none", !.imageUri = Undefined,
                                    !.mealData = <<>>, !.edit = BlankForm]
    /\ UNCHANGED <<AsyncStorage, now, last, handlers, meals, acked, goalForm, report, others>>

\* handleSave of the visible form with a food name: onSave(entry), which is
\* handleSaveMeal or handleUpdateMeal: saveMealEntry, then loadData; the add
\* form resets its texts; onClose().  The storage works here: its failures
\* are those of Spec and SpecUI.
SaveForm ==
    /\ mealForm.visible # "none"
    /\ Trim(mealForm[mealForm.visible].food) # <<>>
    /\ \E fault \in {"none"} :
         LET entry == IF mealForm.visible = "add"
                      THEN ImageDetectionModalEntry(ParsedForm(mealForm.add),
                                                    mealForm.imageUri, now)
                      ELSE EditMealModalEntry(mealForm.mealData[1],
                                              ParsedForm(mealForm.edit))
             r == saveMealEntry(AsyncStorage, entry, now, fault)
         IN  /\ AsyncStorage' = r.store
             /\ last' = Call("saveMealEntry", entry, fault, r)
             /\ meals' = getMealEntries(r.store, "none")
    /\ mealForm' = [NoMealForm EXCEPT
                      !.add = IF mealForm.visible = "add" THEN BlankForm
                              ELSE mealForm.add,
                      !.saved = mealForm.visible]
    /\ UNCHANGED <<now, handlers, acked, goalForm, report, others>>

\* handleSave of the visible form without a food name: the alert
RejectForm ==
    /\ mealForm.visible # "none"
    /\ Trim(mealForm[mealForm.visible].food) = <<>>
    /\ mealForm' = [mealForm EXCEPT !.saved = "alert"]
    /\ UNCHANGED <<AsyncStorage, now, last, handlers, meals, acked, goalForm, report, others>>

\* the Delete button of the edit form, confirmed: onDelete(mealData.id),
\* which is handleDeleteMeal: deleteMealEntry, then loadData; onClose()
DeleteFromForm ==
    /\ mealForm.visible = "edit"
    /\ \E fault \in {"none"} :
         LET r == deleteMealEntry(AsyncStorage, mealForm.mealData[1].id, fault)
         IN  /\ AsyncStorage' = r.store
             /\ last' = Call("deleteMealEntry", mealForm.mealData[1].id, fault, r)
             /\ meals' = getMealEntries(r.store, "none")
    /\ mealForm' = [NoMealForm EXCEPT !.add = mealForm.add]
    /\ UNCHANGED <<now, handlers, acked, goalForm, report, others>>

NextForms ==
    \/ Tick
    \/ DeleteFromForm
    \/ OpenAddForm
    \/ OpenEditForm
    \/ \E f \in DOMAIN FieldTexts : ChangeFormText(f)
    \/ CloseForm
    \/ SaveForm
    \/ RejectForm

SpecForms == Init /\ [][NextForms]_vars

---------------------------------------------------------------------------
(* The Nutrition Aggregator: calculateDailyNutrition (mealStorage.ts) and  *)
(* WeeklyProgressReport.tsx                                                *)

\* an instant of a day of January 1970 (day 1 is 1 January), UTC
At(day, hour, minute) == (day - 1) * DayMs + hour * HourMs + minute * MinuteMs

\* the instants at which the aggregator's user acts: 23:59, 00:01 and 12:00
\* of consecutive days, and 23:30 six days later
AggInstants == {At(10, 23, 59), At(11, 0, 1), At(11, 12, 0), At(17, 23, 30)}

\* the time zones of the device
Offsets == {0, 120, -120}

\* the instants timestamps of the model are made from
Instants == (1..MaxClock) \cup AggInstants

IsoStrings == [t \in Instants |-> toISOString(t)]

\* new Date(timestamp).toDateString(): the local day of the instant the
\* string denotes; a missing timestamp gives an invalid date
DateStringOf(timestamp, offset) ==
    IF \E t \in Instants : IsoStrings[t] = timestamp
    THEN toDateString(CHOOSE t \in Instants : IsoStrings[t] = timestamp, offset)
    ELSE "Invalid Date"

\* the filter of a 24-hour window ending at the date
OnSameDayWithin24h(meal, date, offset) ==
    \E t \in Instants :
        /\ IsoStrings[t] = Get(meal, "timestamp")
        /\ date - DayMs < t
        /\ t <= date

\* new Date(meal.timestamp).toDateString() === dateString, for the
\* dateString of the instant date
OnSameDay(meal, date, offset) ==
    DateStringOf(Get(meal, "timestamp"), offset) = toDateString(date, offset)

\* meal.f || 0
FieldOrZero(meal, f) == IF f \in DOMAIN meal THEN OrZero(meal[f]) ELSE 0

\* the forEach that adds meal.f || 0 of every meal to nutrition.f
RECURSIVE Total(_, _)
Total(entries, f) ==
    IF entries = <<>> THEN 0
    ELSE FieldOrZero(Head(entries), f) + Total(Tail(entries), f)

\* Math.round((sum / goals.f) * 100): sum / undefined is NaN, null counts as
\* 0, x / 0 is Infinity, -Infinity or (for 0 / 0) NaN
Percentage(sum, goals, f) ==
    IF f \notin DOMAIN goals THEN NaN
    ELSE IF goals[f] = Null \/ goals[f] = 0
    THEN (IF sum = 0 THEN NaN ELSE IF sum > 0 THEN Infinity ELSE NegInfinity)
    ELSE MathRound(MulInt(DivInt(FromInt(sum), goals[f]), 100))

\* calculateDailyNutrition(date) at the instant t; date is <<>> when the
\* argument is left out.  Nothing in the try block throws.
calculateDailyNutrition(store, date, t, offset, mealsFault, goalsFault) ==
    LET day == IF date # <<>> THEN date[1] ELSE t
        allMeals == getMealEntries(store, mealsFault)
        todayMeals == SelectSeq(allMeals, LAMBDA meal : OnSameDay(meal, day, offset))
        goals == getUserGoals(store, goalsFault)
        protein == Total(todayMeals, "protein")
        carbs == Total(todayMeals, "carbs")
        fat == Total(todayMeals, "fat")
    IN  [calories |-> Total(todayMeals, "calories"),
         protein |-> protein, carbs |-> carbs, fat |-> fat,
         proteinPercentage |-> Percentage(protein, goals, "proteinTarget"),
         carbsPercentage |-> Percentage(carbs, goals, "carbTarget"),
         fatPercentage |-> Percentage(fat, goals, "fatTarget")]

\* Math.round((calories / goals.calorieTarget) * 100) of loadWeeklyData
calorieGoalPercentage(calories, goals) == Percentage(calories, goals, "calorieTarget")

\* WeeklyProgressReport.loadWeeklyData at the instant t: the seven days that
\* end today, oldest first; fault tells whether the storage can be read
loadWeeklyData(store, t, offset, fault) ==
    LET goals == getUserGoals(store, fault)
        allMeals == getMealEntries(store, fault)
    IN  [k \in 1..7 |->
            LET date == t - (7 - k) * DayMs
                dayNutrition == calculateDailyNutrition(store, <<date>>, t, offset, fault, fault)
            IN  [date |-> toDateString(date, offset),
                 calories |-> dayNutrition.calories,
                 protein |-> dayNutrition.protein,
                 carbs |-> dayNutrition.carbs,
                 fat |-> dayNutrition.fat,
                 calorieGoalPercentage |-> calorieGoalPercentage(dayNutrition.calories, goals),
                 hasEntries |-> \E i \in DOMAIN allMeals : OnSameDay(allMeals[i], date, offset)]]

\* the reduce that sums the field f of the days
RECURSIVE DayTotal(_, _)
DayTotal(days, f) ==
    IF days = <<>> THEN 0 ELSE Head(days)[f] + DayTotal(Tail(days), f)

\* an average over all seven days of the window
AverageOverWeek(days, weekData, f) ==
    MathRound(DivInt(FromInt(DayTotal(days, f)), Len(weekData)))

\* Math.round(totals.f / daysWithEntries.length)
Average(days, weekData, f) == MathRound(DivInt(FromInt(DayTotal(days, f)), Len(days)))

\* WeeklyProgressReport.calculateWeeklyAverages
calculateWeeklyAverages(weekData) ==
    LET daysWithEntries == SelectSeq(weekData, LAMBDA day : day.hasEntries)
    IN  IF Len(weekData) = 0 \/ Len(daysWithEntries) = 0
        THEN [calories |-> 0, protein |-> 0, carbs |-> 0, fat |-> 0]
        ELSE [calories |-> Average(daysWithEntries, weekData, "calories"),
              protein |-> Average(daysWithEntries, weekData, "protein"),
              carbs |-> Average(daysWithEntries, weekData, "carbs"),
              fat |-> Average(daysWithEntries, weekData, "fat")]

\* what the user logs: a meal with all fields, and one as an older version
\* stored it, without macronutrients
AggMeals ==
    { [food |-> "oats", calories |-> 1000, protein |-> 46, carbs |-> 100,
       fat |-> 20, notes |-> "", image |-> Undefined],
      [food |-> "tea", calories |-> 300, notes |-> ""] }

\* goals as they get stored: derived by the form, with targets that are
\* zero, negative and not a number, and with targets missing
AggGoals ==
    { [calorieTarget |-> 1500, proteinTarget |-> 113, carbTarget |-> 169,
       fatTarget |-> 42, goalType |-> "lose", activityLevel |-> "moderate"],
      [calorieTarget |-> 0, proteinTarget |-> 0, carbTarget |-> -5,
       fatTarget |-> NaN, goalType |-> "maintain", activityLevel |-> "moderate"],
      [calorieTarget |-> 2000, proteinTarget |-> 80] }

\* no screen that shows totals is mounted: a screen computes once when it
\* mounts, and what it shows is of the store and the clock of that moment
Cleared == [report EXCEPT !.daily = <<>>, !.weekly = <<>>]

InitAgg ==
    /\ AsyncStorage = [k \in StorageKeys |-> NullItem]
    /\ now = At(10, 23, 59)
    /\ last = NoCall
    /\ handlers = [p \in 1..NumHandlers |-> Idle]
    /\ meals = <<>>
    /\ acked = {}
    /\ goalForm = GoalFormInitial
    /\ mealForm = NoMealForm
    /\ \E offset \in Offsets : report = [NoReport EXCEPT !.offset = offset]
    /\ InitOthers

\* time passes until the user acts again
PassTime ==
    \E t \in AggInstants :
        /\ t > now
        /\ now' = t
        /\ report' = Cleared
        /\ UNCHANGED <<AsyncStorage, last, handlers, meals, acked, goalForm, mealForm, others>>

\* a form hands over a meal: id and timestamp are of this instant
LogMeal ==
    \E meal \in AggMeals :
        LET mealEntry == Spread(Spread(meal, "id", toString(now)),
                                "timestamp", toISOString(now))
        IN  /\ AsyncStorage' = saveMealEntry(AsyncStorage, mealEntry, now, "none").store
            /\ report' = Cleared
            /\ UNCHANGED <<now, last, handlers, meals, acked, goalForm, mealForm, others>>

StoreGoals ==
    \E goals \in AggGoals :
        /\ AsyncStorage' = saveUserGoals(AsyncStorage, goals, "none").store
        /\ report' = Cleared
        /\ UNCHANGED <<now, last, handlers, meals, acked, goalForm, mealForm, others>>

\* calculateDailyNutrition() as HomeScreen.loadNutrition calls it, and
\* calculateDailyNutrition(date) for the date of an instant
CallCalculateDailyNutrition ==
    \E date \in {<<>>} \cup {<<t>> : t \in AggInstants},
       mealsFault \in {"none", "read"}, goalsFault \in {"none", "read"} :
        /\ report = Cleared
        /\ report' = [report EXCEPT !.daily =
               <<[date |-> date, mealsFault |-> mealsFault, goalsFault |-> goalsFault,
                  value |-> calculateDailyNutrition(AsyncStorage, date, now,
                                report.offset, mealsFault, goalsFault)]>>]
        /\ UNCHANGED <<AsyncStorage, now, last, handlers, meals, acked, goalForm, mealForm, others>>

\* the report screen mounts: loadWeeklyData, then the render that calls
\* calculateWeeklyAverages
MountWeeklyProgressReport ==
    \E fault \in {"none", "read"} :
        LET weekData == loadWeeklyData(AsyncStorage, now, report.offset, fault)
        IN  /\ report = Cleared
            /\ report' = [report EXCEPT !.weekly =
                   <<[fault |-> fault, weekData |-> weekData,
                      averages |-> calculateWeeklyAverages(weekData)]>>]
            /\ UNCHANGED <<AsyncStorage, now, last, handlers, meals, acked, goalForm, mealForm, others>>

NextAgg ==
    \/ PassTime
    \/ LogMeal
    \/ StoreGoals
    \/ CallCalculateDailyNutrition
    \/ MountWeeklyProgressReport

SpecAgg == InitAgg /\ [][NextAgg]_vars

---------------------------------------------------------------------------
(* Properties of the Nutrition Aggregator *)

\* the local calendar day of a stored entry, counted from 1 January 1970
EntryDay(meal) ==
    LocalDay(CHOOSE t \in Instants : IsoStrings[t] = Get(meal, "timestamp"),
             report.offset)

\* the positions of the stored entries whose timestamp falls on a day of days
EntriesOn(days) ==
    {i \in DOMAIN Stored :
        /\ \E t \in Instants : IsoStrings[t] = Get(Stored[i], "timestamp")
        /\ EntryDay(Stored[i]) \in days}

\* the sum of the field f, a missing field counting as 0, over the stored
\* entries at the positions
RECURSIVE SumAt(_, _)
SumAt(positions, f) ==
    IF positions = {} THEN 0
    ELSE LET i == CHOOSE j \in positions : TRUE
         IN  (IF f \in DOMAIN Stored[i] THEN Stored[i][f] ELSE 0)
             + SumAt(positions \ {i}, f)

\* the day calculateDailyNutrition was asked about
AskedDay(r) == LocalDay(IF r.date # <<>> THEN r.date[1] ELSE now, report.offset)

\* the results of calculateDailyNutrition whose reads of the storage succeeded
DailyResults ==
    {r \in Range(report.daily) : r.mealsFault = "none" /\ r.goalsFault = "none"}

\* the goals getUserGoals returns
Goals == getUserGoals(AsyncStorage, "none")

TargetOf ==
    [proteinPercentage |-> "proteinTarget", carbsPercentage |-> "carbTarget",
     fatPercentage |-> "fatTarget"]

SumOf ==
    [proteinPercentage |-> "protein", carbsPercentage |-> "carbs",
     fatPercentage |-> "fat"]

\* the target is a positive number
PositiveTarget(goals, f) == f \in DOMAIN goals /\ isFinite(goals[f]) /\ goals[f] > 0

\* C11: calculateDailyNutrition(date) returns for calories, protein, carbs
\* and fat the sum of the field over exactly the stored entries of date's
\* local calendar day, a missing field counting as 0, and each percentage is
\* round(100 * sum / target) for the positive target of getUserGoals.
C11_DailySumsAndPercentages ==
    \A r \in DailyResults :
        /\ \A f \in {"calories", "protein", "carbs", "fat"} :
               r.value[f] = SumAt(EntriesOn({AskedDay(r)}), f)
        /\ \A p \in DOMAIN TargetOf :
               PositiveTarget(Goals, TargetOf[p]) =>
                   r.value[p] = RoundedQuotient(100 * r.value[SumOf[p]],
                                                Goals[TargetOf[p]])

\* C12: for a target that is zero, negative or missing in the stored goals
\* calculateDailyNutrition returns 0 for the percentage, on a day with
\* entries and on a day without.
C12_PercentageZeroWithoutTarget ==
    \A r \in DailyResults :
        \A p \in DOMAIN TargetOf :
            ~PositiveTarget(Goals, TargetOf[p]) => r.value[p] = 0

\* the results of loadWeeklyData whose reads of the storage succeeded
WeeklyResults == {r \in Range(report.weekly) : r.fault = "none"}

\* the seven local calendar days that end today
Window == (LocalDay(now, report.offset) - 6)..LocalDay(now, report.offset)

\* the days of the window that have at least one entry
DaysWithEntries == {d \in Window : EntriesOn({d}) # {}}

\* C13: the weekly averages are, for each field, the total over the entries
\* of the seven local calendar days ending today divided by the number of
\* those days that have an entry, rounded; with no entry in the window all
\* four averages are 0.
C13_WeeklyAverages ==
    \A r \in WeeklyResults :
        \A f \in {"calories", "protein", "carbs", "fat"} :
            r.averages[f] =
                IF DaysWithEntries = {} THEN 0
                ELSE RoundedQuotient(SumAt(EntriesOn(Window), f),
                                     Cardinality(DaysWithEntries))

\* entries on two of the seven days, with calories 1000 and 2000, average 1500
C13_Witness ==
    \E r \in WeeklyResults :
        /\ Cardinality(DaysWithEntries) = 2
        /\ {SumAt(EntriesOn({d}), "calories") : d \in DaysWithEntries} = {1000, 2000}
        /\ r.averages.calories = 1500

\* C14: buckets are local calendar days: the totals of a day, in the daily
\* and in the weekly computation, are of the entries of that calendar day
\* and of no other, so every entry counts for exactly one day and entries of
\* consecutive days never count for the same day.
C14_CalendarDayBuckets ==
    /\ \A r \in DailyResults :
           r.value.calories = SumAt(EntriesOn({AskedDay(r)}), "calories")
    /\ \A r \in WeeklyResults :
           \A k \in 1..7 :
               LET day == LocalDay(now, report.offset) - (7 - k)
               IN  /\ r.weekData[k].calories = SumAt(EntriesOn({day}), "calories")
                   /\ r.weekData[k].hasEntries = (EntriesOn({day}) # {})

\* entries of 23:59 and of 00:01 the next day are stored, and the totals of
\* the second day, daily and weekly, have the second entry alone
C14_Witness ==
    /\ report.offset = 0
    /\ \E i, j \in DOMAIN Stored :
           /\ Stored[i].timestamp = toISOString(At(10, 23, 59))
           /\ Stored[j].timestamp = toISOString(At(11, 0, 1))
           /\ Stored[j].calories = 1000
           /\ Len(Stored) = 2
    /\ \/ \E r \in DailyResults : r.date = <<At(11, 0, 1)>> /\ r.value.calories = 1000
       \/ \E r \in WeeklyResults :
              r.weekData[7].calories = 1000 /\ r.weekData[6].hasEntries

---------------------------------------------------------------------------
(* Properties of the meal forms *)

NumberFields == {"calories", "protein", "carbs", "fat"}

\* the visible form
VisibleForm == mealForm[mealForm.visible]

\* the food name is empty after trimming
BlankFood(form) == \A i \in DOMAIN form.food : form.food[i] = " "

\* C19: an entry that the add or the edit form hands to saveMealEntry has a
\* food name that is not empty after trimming, and calories, protein, carbs
\* and fat are numbers: what the text parses to, or 0 when it does not
\* parse; with an empty food name in the form no call of saveMealEntry is
\* made.
C19_FormEntriesValid ==
    [][/\ (mealForm.visible # "none" /\ BlankFood(VisibleForm)) =>
              (last' = last \/ last'.op = "deleteMealEntry")
       /\ (last' # last /\ last'.op = "saveMealEntry") =>
              /\ mealForm.visible # "none"
              /\ ~BlankFood(VisibleForm)
              /\ last'.arg[1].food = Join(VisibleForm.food)
              /\ \A f \in NumberFields :
                     /\ last'.arg[1][f] \in Int
                     /\ last'.arg[1][f] =
                            IF parseInt(VisibleForm[f]) = NaN THEN 0
                            ELSE parseInt(VisibleForm[f])]_vars

\* the add form saved a meal with 12 calories, the edit form then saved it
\* with a text for the calories that does not parse
C19_Witness ==
    /\ mealForm.saved = "edit"
    /\ SavedOk
    /\ last.arg[1].food = "egg"
    /\ last.arg[1].calories = 0
    /\ \E i \in DOMAIN StoredBefore :
           /\ StoredBefore[i].id = last.arg[1].id
           /\ StoredBefore[i].calories = 12

EditedFields == {"food", "calories", "protein", "carbs", "fat", "notes"}

\* C20: a save of the edit form changes only food, calories, protein, carbs,
\* fat and notes of the meal: id, timestamp and image are those of the
\* stored entry, the other entries and the number of entries are as before,
\* and the entry is of the same calendar day.
C20_EditKeepsIdentity ==
    (mealForm.saved = "edit" /\ SavedOk) =>
        /\ Len(Stored) = Len(StoredBefore)
        /\ \E i \in DOMAIN StoredBefore :
               /\ StoredBefore[i].id = Get(last.arg[1], "id")
               /\ DOMAIN Stored[i] \ EditedFields = DOMAIN StoredBefore[i] \ EditedFields
               /\ \A f \in DOMAIN StoredBefore[i] \ EditedFields :
                      Stored[i][f] = StoredBefore[i][f]
               /\ {"id", "timestamp"} \subseteq DOMAIN Stored[i]
               /\ Get(Stored[i], "image") = Get(StoredBefore[i], "image")
               /\ \A offset \in Offsets :
                      DateStringOf(Stored[i].timestamp, offset)
                          = DateStringOf(StoredBefore[i].timestamp, offset)
               /\ \A j \in DOMAIN StoredBefore \ {i} : Stored[j] = StoredBefore[j]

\* a meal with a picture, one of two stored, was saved by the edit form with
\* another number of calories, at a later instant than it was made
C20_Witness ==
    /\ mealForm.saved = "edit"
    /\ SavedOk
    /\ Len(StoredBefore) = 2
    /\ \E i \in DOMAIN StoredBefore :
           /\ StoredBefore[i].id = last.arg[1].id
           /\ StoredBefore[i].id # toString(now)
           /\ Get(StoredBefore[i], "image") = "file:///meal.jpg"
           /\ StoredBefore[i].calories # Stored[i].calories

---------------------------------------------------------------------------
(* SpecPhoto, SpecScan: the paths on which a collaborator produces an      *)
(* entry: the image analysis of ImageDetectionModal and the two            *)
(* BarcodeScanner                                                          *)
(* components (the one with the local product table, the one that asks the *)
(* barcode service first).  HomeScreen shows one modal at a time; a hidden *)
(* modal stays mounted and keeps its state.                                *)

\* analyzeImage calls that can be in flight together
MaxAnalyses == 2

\* barcode fetches that can be in flight together
MaxLookups == 2

\* notes of a successful analysis, for the description pizza
AnalyzedNotes == "pizza - Analyzed using Hugging Face vision API and nutrition database"

\* field, when truthy, rounded and written as a text, else '0'
RoundedText(food, f) ==
    IF f \in DOMAIN food /\ food[f].mag # <<>>
    THEN toChars(MathRound(food[f])) ELSE <<"0">>

\* what the two services answer: a description with the nutrients of the
\* first food found, a description with no food found, or a failure
AnalysisResults ==
    { [ok |-> TRUE, generated_text |-> "pizza",
       food |-> [nf_calories |-> DivInt(FromInt(2853), 10),
                 nf_protein |-> DivInt(FromInt(123), 10),
                 nf_total_carbohydrate |-> DivInt(FromInt(357), 10),
                 nf_total_fat |-> FromInt(10)]],
      [ok |-> TRUE, generated_text |-> "", food |-> <<>>],
      [ok |-> FALSE] }

\* the fields after the try block of analyzeImage completed
AnalyzedForm(result) ==
    [food |-> IF result.generated_text # "" THEN <<"p", "i", "z", "z", "a">>
              ELSE <<"F", "o", "o", "d", " ", "i", "t", "e", "m">>,
     calories |-> RoundedText(result.food, "nf_calories"),
     protein |-> RoundedText(result.food, "nf_protein"),
     carbs |-> RoundedText(result.food, "nf_total_carbohydrate"),
     fat |-> RoundedText(result.food, "nf_total_fat"),
     notes |-> IF result.generated_text # "" THEN AnalyzedNotes
               ELSE " - Analyzed using Hugging Face vision API and nutrition database"]

\* the fields the catch block of analyzeImage sets
FallbackForm ==
    [food |-> <<"F", "o", "o", "d", " ", "i", "t", "e", "m">>,
     calories |-> <<"0">>, protein |-> <<"0">>, carbs |-> <<"0">>,
     fat |-> <<"0">>,
     notes |-> "Please enter nutritional information manually"]

\* analyzeImage up to its first await
AnalysisStarted(modal) ==
    [modal EXCEPT !.isAnalyzing = TRUE, !.pending = @ + 1, !.analyses = 1,
                  !.outcome = "pending"]

\* the effect on [visible, imageUri]
AnalyzeOnVisible(modal) ==
    IF modal.visible /\ modal.imageUri # Undefined /\ ~modal.analysisComplete
    THEN AnalysisStarted(modal) ELSE modal

\* Log Meal (no picture) or handleCameraAccess (the picture taken): the add
\* modal becomes visible and its effect runs
OpenPhoto ==
    /\ ~photo.visible
    /\ ~scanner.visible
    /\ photo.pending < MaxAnalyses
    /\ \E imageUri \in {Undefined, "file:///meal.jpg"} :
         photo' = AnalyzeOnVisible([photo EXCEPT !.visible = TRUE,
                                                 !.imageUri = imageUri,
                                                 !.analyses = 0])
    /\ UNCHANGED <<AsyncStorage, now, last, handlers, meals, acked,
                   goalForm, mealForm, report, scanner, theme, home, loader>>

\* the button Analyze Image with AI: handleRetryAnalysis
RetryAnalysis ==
    /\ photo.visible
    /\ ~photo.analysisComplete
    /\ ~photo.isAnalyzing
    /\ photo.imageUri # Undefined
    /\ photo.pending < MaxAnalyses
    /\ photo' = AnalysisStarted([photo EXCEPT !.analysisComplete = FALSE])
    /\ UNCHANGED <<AsyncStorage, now, last, handlers, meals, acked,
                   goalForm, mealForm, report, scanner, theme, home, loader>>

\* an analyzeImage in flight gets its answers and runs to its end
AnalysisReturns ==
    /\ photo.pending > 0
    /\ \E result \in AnalysisResults :
         photo' = [photo EXCEPT
                     !.form = IF result.ok THEN AnalyzedForm(result) ELSE FallbackForm,
                     !.analysisComplete = IF result.ok THEN TRUE ELSE @,
                     !.isAnalyzing = FALSE,
                     !.pending = @ - 1,
                     !.outcome = IF result.ok THEN "ok" ELSE "failed"]
    /\ UNCHANGED <<AsyncStorage, now, last, handlers, meals, acked,
                   goalForm, mealForm, report, scanner, theme, home, loader>>

\* onClose of the add modal: HomeScreen hides it and forgets the picture
ClosePhoto ==
    /\ photo.visible
    /\ photo' = [photo EXCEPT !.visible = FALSE, !.imageUri = Undefined]
    /\ UNCHANGED <<AsyncStorage, now, last, handlers, meals, acked,
                   goalForm, mealForm, report, scanner, theme, home, loader>>

\* handleSave of the add modal with a food name: onSave(mealEntry), which is
\* handleSaveMeal; the fields are reset; onClose()
SavePhoto ==
    /\ photo.visible
    /\ Trim(photo.form.food) # <<>>
    /\ LET entry == ImageDetectionModalEntry(ParsedForm(photo.form), photo.imageUri, now)
           r == saveMealEntry(AsyncStorage, entry, now, "none")
       IN  /\ AsyncStorage' = r.store
           /\ last' = Call("saveMealEntry", entry, "none", r)
    /\ photo' = [photo EXCEPT !.visible = FALSE, !.imageUri = Undefined,
                              !.form = BlankForm, !.analysisComplete = FALSE]
    /\ UNCHANGED <<now, handlers, meals, acked,
                   goalForm, mealForm, report, scanner, theme, home, loader>>

\* mockFoodDatabase of the two components: they differ in one product
mockFoodDatabase(version) ==
    [b \in {"5449000000996", "5000112637922", "027917009711"} |->
        IF b = "5449000000996"
        THEN [name |-> "Coca-Cola", calories |-> 139, protein |-> 0,
              carbs |-> 35, fat |-> 0]
        ELSE IF b = "5000112637922"
        THEN [name |-> "Cadbury Dairy Milk", calories |-> 240, protein |-> 4,
              carbs |-> 25, fat |-> 14]
        ELSE [name |-> "Vitafusion MultiVites",
              calories |-> IF version = "mock" THEN 15 ELSE 150,
              protein |-> 0,
              carbs |-> IF version = "mock" THEN 4 ELSE 100,
              fat |-> 0]]

\* the barcodes the camera reads: a product of the table, an unknown one
Barcodes == {"5449000000996", "4006381333931"}

\* the first "label amount unit" of the nutrition text, the amount digits
\* only: what the regular expression label\s+(\d+)\s+unit captures
Captured(facts, label, unit) ==
    LET found == {i \in DOMAIN facts :
                     /\ facts[i].label = label
                     /\ facts[i].unit = unit
                     /\ facts[i].amount # <<>>
                     /\ \A j \in DOMAIN facts[i].amount : IsDigit(facts[i].amount[j])}
    IN  IF found = {} THEN 0
        ELSE parseInt(facts[CHOOSE i \in found : \A j \in found : i <= j].amount)

\* parseNutritionFacts: zeros without a text
parseNutritionFacts(product) ==
    IF "nutrition_facts" \notin DOMAIN product
    THEN [calories |-> 0, protein |-> 0, carbs |-> 0, fat |-> 0]
    ELSE [calories |-> Captured(product.nutrition_facts, "Energy", "kcal"),
          carbs |-> Captured(product.nutrition_facts, "Carbohydrates", "g"),
          protein |-> Captured(product.nutrition_facts, "Protein", "g"),
          fat |-> Captured(product.nutrition_facts, "Fat", "g")]

\* what fetchProductFromAPI returns: a product with the nutrition text
\* "Energy 150 kcal, Carbohydrates 100 g, Sugars 75 g, Salt 1.25 g.", a
\* product without one, or null after a failure
ApiResponses ==
    { <<[title |-> "Gummies",
         nutrition_facts |->
            <<[label |-> "Energy", amount |-> <<"1", "5", "0">>, unit |-> "kcal"],
              [label |-> "Carbohydrates", amount |-> <<"1", "0", "0">>, unit |-> "g"],
              [label |-> "Sugars", amount |-> <<"7", "5">>, unit |-> "g"],
              [label |-> "Salt", amount |-> <<"1", ".", "2", "5">>, unit |-> "g"]>>]>>,
      <<[title |-> "Water"]>>,
      <<>> }

\* the entry handleBarCodeScanned makes of a product of the table
MockEntry(version, data, t) ==
    LET product == mockFoodDatabase(version)[data]
    IN  [id |-> toString(t), food |-> product.name, calories |-> product.calories,
         protein |-> product.protein, carbs |-> product.carbs, fat |-> product.fat,
         notes |-> "Scanned barcode: " \o data
                    \o (IF version = "api" THEN " (from local database)" ELSE ""),
         timestamp |-> toISOString(t)]

\* the entry handleBarCodeScanned makes of the product the service returned
ApiEntry(product, data, t) ==
    LET nutrition == parseNutritionFacts(product)
    IN  [id |-> toString(t), food |-> product.title,
         calories |-> nutrition.calories, protein |-> nutrition.protein,
         carbs |-> nutrition.carbs, fat |-> nutrition.fat,
         notes |-> "Scanned barcode: " \o data \o "\n",
         timestamp |-> toISOString(t)]

\* the state of the component as a render sees it
Seen(sc) ==
    [visible |-> sc.visible, scanned |-> sc.scanned, scanning |-> sc.scanning,
     loading |-> sc.loading]

\* the user chooses to scan: nothing was offered yet
Rescan(sc) == [sc EXCEPT !.offered = <<>>, !.delivered = 0, !.alert = FALSE]

\* the Scan Barcode button of HomeScreen
OpenScanner ==
    /\ ~scanner.visible
    /\ ~photo.visible
    /\ scanner' = [Rescan(scanner) EXCEPT !.visible = TRUE, !.outcome = "none"]
    /\ UNCHANGED <<AsyncStorage, now, last, handlers, meals, acked,
                   goalForm, mealForm, report, photo, theme, home, loader>>

\* onClose: the close button of the header or of an alert
CloseScanner ==
    /\ scanner.visible
    /\ scanner' = [scanner EXCEPT !.visible = FALSE, !.alert = FALSE]
    /\ UNCHANGED <<AsyncStorage, now, last, handlers, meals, acked,
                   goalForm, mealForm, report, photo, theme, home, loader>>

\* Try Again of the alert: the user chooses to scan again
TryAgain ==
    /\ scanner.alert
    /\ scanner' = [Rescan(scanner) EXCEPT
                     !.scanned = FALSE,
                     !.scanning = IF scanner.version = "api" THEN TRUE ELSE @,
                     !.loading = IF scanner.version = "api" THEN FALSE ELSE @]
    /\ UNCHANGED <<AsyncStorage, now, last, handlers, meals, acked,
                   goalForm, mealForm, report, photo, theme, home, loader>>

\* React renders the component with its current state; the effect on
\* [visible] of the component with the table resets it when it was hidden
RenderScanner ==
    /\ scanner.rendered # Seen(scanner)
    /\ LET reset == /\ scanner.version = "mock"
                    /\ scanner.rendered.visible
                    /\ ~scanner.visible
           after == IF reset
                    THEN [scanner EXCEPT !.scanned = FALSE, !.loading = FALSE]
                    ELSE scanner
       IN  scanner' = [after EXCEPT !.rendered = Seen(after)]
    /\ UNCHANGED <<AsyncStorage, now, last, handlers, meals, acked,
                   goalForm, mealForm, report, photo, theme, home, loader>>

\* onProductScanned(mealEntry) of HomeScreen: the scanner is hidden and
\* handleSaveMeal(product) stores the entry
Delivered(sc, mealEntry, outcome) ==
    LET r == saveMealEntry(AsyncStorage, mealEntry, now, "none")
    IN  /\ AsyncStorage' = r.store
        /\ last' = Call("saveMealEntry", mealEntry, "none", r)
        /\ scanner' = [sc EXCEPT !.visible = FALSE, !.offered = <<mealEntry>>,
                                 !.delivered = IF @ < 2 THEN @ + 1 ELSE @,
                                 !.outcome = outcome]

\* the camera shows and hands scan events to handleBarCodeScanned
CameraOn ==
    /\ scanner.rendered.visible
    /\ ~scanner.rendered.loading
    /\ ~scanner.rendered.scanned

\* the camera reads a barcode: handleBarCodeScanned of the component with
\* the table, which runs to its end without waiting
ScanMock ==
    /\ scanner.version = "mock"
    /\ CameraOn
    /\ ~scanner.rendered.scanned
    /\ \E data \in Barcodes :
         IF data \in DOMAIN mockFoodDatabase("mock")
         THEN Delivered([scanner EXCEPT !.scanned = TRUE, !.loading = FALSE],
                        MockEntry("mock", data, now), "ok")
         ELSE /\ scanner' = [scanner EXCEPT !.scanned = TRUE, !.loading = FALSE,
                                            !.alert = TRUE]
              /\ UNCHANGED <<AsyncStorage, last>>
    /\ UNCHANGED <<now, handlers, meals, acked,
                   goalForm, mealForm, report, photo, theme, home, loader>>

\* the camera reads a barcode: handleBarCodeScanned of the component with
\* the service, up to the await of fetchProductFromAPI
ScanApi ==
    /\ scanner.version = "api"
    /\ CameraOn
    /\ scanner.rendered.scanning
    /\ Len(scanner.lookups) < MaxLookups
    /\ \E data \in Barcodes :
         scanner' = [scanner EXCEPT !.scanned = TRUE, !.scanning = FALSE,
                                    !.loading = TRUE,
                                    !.lookups = Append(@, data),
                                    !.outcome = "pending"]
    /\ UNCHANGED <<AsyncStorage, now, last, handlers, meals, acked,
                   goalForm, mealForm, report, photo, theme, home, loader>>

Without(seq, i) == SubSeq(seq, 1, i - 1) \o SubSeq(seq, i + 1, Len(seq))

\* fetchProductFromAPI returns and handleBarCodeScanned runs to its end
LookupReturns ==
    /\ \E i \in DOMAIN scanner.lookups, response \in ApiResponses :
         LET data == scanner.lookups[i]
             sc == [scanner EXCEPT !.lookups = Without(@, i), !.loading = FALSE]
         IN  IF response # <<>>
             THEN Delivered(sc, ApiEntry(response[1], data, now), "ok")
             ELSE IF data \in DOMAIN mockFoodDatabase("api")
             THEN Delivered(sc, MockEntry("api", data, now), "failed")
             ELSE /\ scanner' = [sc EXCEPT !.alert = TRUE, !.outcome = "failed"]
                  /\ UNCHANGED <<AsyncStorage, last>>
    /\ UNCHANGED <<now, handlers, meals, acked,
                   goalForm, mealForm, report, photo, theme, home, loader>>

\* the Scan Again button of the component with the service
ScanAgain ==
    /\ scanner.version = "api"
    /\ scanner.rendered.visible
    /\ scanner.rendered.scanned
    /\ ~scanner.rendered.loading
    /\ scanner' = [Rescan(scanner) EXCEPT !.scanned = FALSE, !.scanning = TRUE]
    /\ UNCHANGED <<AsyncStorage, now, last, handlers, meals, acked,
                   goalForm, mealForm, report, photo, theme, home, loader>>

\* the application is built with one of the two BarcodeScanner components
InitScan ==
    /\ AsyncStorage = [k \in StorageKeys |-> NullItem]
    /\ now = 1
    /\ last = NoCall
    /\ handlers = [p \in 1..NumHandlers |-> Idle]
    /\ meals = <<>>
    /\ acked = {}
    /\ goalForm = GoalFormInitial
    /\ mealForm = NoMealForm
    /\ report = NoReport
    /\ photo = NoPhoto
    /\ \E version \in {"mock", "api"} :
         scanner = [NoScanner EXCEPT !.version = version]
    /\ theme = ThemeInitial
    /\ home = HomeInitial
    /\ loader = NoLoad

NextPhoto ==
    \/ Tick
    \/ OpenPhoto
    \/ RetryAnalysis
    \/ AnalysisReturns
    \/ ClosePhoto
    \/ SavePhoto

\* SpecPhoto: the add modal and its image analysis
SpecPhoto == Init /\ [][NextPhoto]_vars

NextScan ==
    \/ Tick
    \/ OpenScanner
    \/ CloseScanner
    \/ TryAgain
    \/ RenderScanner
    \/ ScanMock
    \/ ScanApi
    \/ LookupReturns
    \/ ScanAgain

\* SpecScan: the barcode scanner, either component
SpecScan == InitScan /\ [][NextScan]_vars

---------------------------------------------------------------------------
(* Properties of the collaborator paths *)

NutritionFields == {"calories", "protein", "carbs", "fat"}

\* C21: an entry that comes from the image analysis or from a barcode scan
\* is stored only by the user's save of the add modal that shows it: every
\* saveMealEntry call is made for the entry in the fields of the visible
\* add modal, none directly for the collaborator's result.
C21_ReviewedBeforePersisted ==
    [][(last' # last /\ last'.op = "saveMealEntry") =>
           /\ photo.visible
           /\ last'.arg
                = <<ImageDetectionModalEntry(ParsedForm(photo.form),
                                             photo.imageUri, now)>>]_vars

\* C22: when the image analysis or the barcode lookup fails, the stored
\* entries and goals stay as they are and the entry offered to the user
\* has calories, protein, carbs and fat 0.
C22_FailureOffersZeros ==
    [][/\ (photo.outcome = "pending" /\ photo'.outcome = "failed") =>
              /\ AsyncStorage' = AsyncStorage
              /\ \A f \in NutritionFields : ParsedForm(photo'.form)[f] = 0
       /\ (Len(scanner'.lookups) < Len(scanner.lookups)
              /\ scanner'.outcome = "failed") =>
              /\ AsyncStorage' = AsyncStorage
              /\ \/ scanner'.offered = scanner.offered
                 \/ \A f \in NutritionFields : scanner'.offered[1][f] = 0]_vars

\* C25: while the add modal is visible with a picture, an analysis was
\* started since it became visible, or the button Analyze Image with AI is
\* shown (no analysis complete and none running).
C25_AnalysisStartedOrOffered ==
    (photo.visible /\ photo.imageUri # Undefined) =>
        \/ photo.analyses = 1
        \/ (~photo.analysisComplete /\ ~photo.isAnalyzing)

\* C27: from the recognition of a barcode until the user chooses to scan
\* again, at most one entry is handed to onProductScanned.
C27_AtMostOneDelivery == scanner.delivered <= 1

---------------------------------------------------------------------------
(* Properties of the taps in the goal form (SpecGoals) *)

\* the four target fields show the targets derived for the selection
ShowsTargetsOf(form, goalType, activityLevel) ==
    \A i \in DOMAIN TargetFields :
        form[TargetFields[i]]
            = toChars(DerivedTargets[goalType][activityLevel][TargetFields[i]])

\* C23: after a tap on a goal type or activity level that changes the
\* selection, the four target fields equal the targets derived for the goal
\* type and activity level selected after the tap.
C23_TapDerivesForNewSelection ==
    [][(/\ goalForm'.derived # <<>>
        /\ \/ goalForm'.goalType # goalForm.goalType
           \/ goalForm'.activityLevel # goalForm.activityLevel) =>
           ShowsTargetsOf(goalForm', goalForm'.goalType,
                          goalForm'.activityLevel)]_vars

---------------------------------------------------------------------------
(* SpecTheme: ThemeProvider.  The state is rendered again at the end of   *)
(* every event and continuation, so toggleTheme reads the isDarkMode of    *)
(* the moment it is called.                                                *)

MaxToggles == 3

\* JSON.stringify of a boolean
stringifyBoolean(b) == IF b THEN "true" ELSE "false"

\* JSON.parse of the text of a boolean
parseBoolean(text) == text = "true"

\* the dark-mode items an earlier run of the app can have left
StoredModes == {NullItem, Item("false"), Item("true")}

InitTheme ==
    /\ AsyncStorage = [k \in StorageKeys |-> NullItem]
    /\ now = 1
    /\ last = NoCall
    /\ handlers = [p \in 1..NumHandlers |-> Idle]
    /\ meals = <<>>
    /\ acked = {}
    /\ goalForm = GoalFormInitial
    /\ mealForm = NoMealForm
    /\ report = NoReport
    /\ photo = NoPhoto
    /\ scanner = NoScanner
    /\ \E item \in StoredModes :
         theme = [ThemeInitial EXCEPT !.storage[DARK_MODE_KEY] = item]
    /\ home = HomeInitial
    /\ loader = NoLoad

ThemeStep(next) ==
    /\ theme' = next
    /\ UNCHANGED <<AsyncStorage, now, last, handlers, meals, acked, goalForm,
                   mealForm, report, photo, scanner, home, loader>>

\* the effect of the mount: loadThemePreference up to its await
loadThemePreference ==
    /\ theme.load = "idle"
    /\ ThemeStep([theme EXCEPT !.load = "getItem",
                               !.queue = Append(@, [op |-> "getItem"])])

\* toggleTheme up to its await: newMode = !isDarkMode;
\* setIsDarkMode(newMode); setItem(DARK_MODE_KEY, JSON.stringify(newMode))
toggleTheme ==
    /\ theme.load # "idle"
    /\ theme.toggles < MaxToggles
    /\ LET newMode == ~theme.isDarkMode
       IN  ThemeStep([theme EXCEPT
                        !.isDarkMode = newMode,
                        !.queue = Append(@, [op |-> "setItem",
                                             text |-> stringifyBoolean(newMode)]),
                        !.toggles = @ + 1])

\* AsyncStorage serves the getItem of loadThemePreference
ThemeGetItemSettles ==
    /\ theme.queue # <<>>
    /\ Head(theme.queue).op = "getItem"
    /\ \E fault \in {"none", "read"} :
         LET r == getItem(theme.storage, DARK_MODE_KEY, fault)
         IN  ThemeStep([theme EXCEPT
                          !.queue = Tail(@),
                          !.load = IF r.completion = "throw" THEN "done"
                                   ELSE "resolved",
                          !.read = IF r.completion = "throw" THEN NullItem
                                   ELSE r.value,
                          !.failed = @ \/ r.completion = "throw"])

\* loadThemePreference after its await: if (darkModeSetting !== null)
\* setIsDarkMode(JSON.parse(darkModeSetting))
loadThemePreferenceResumes ==
    /\ theme.load = "resolved"
    /\ ThemeStep([theme EXCEPT
                    !.load = "done",
                    !.isDarkMode = IF theme.read # NullItem
                                   THEN parseBoolean(theme.read[1]) ELSE @])

\* AsyncStorage serves the setItem of a toggleTheme; a rejection is logged
ThemeSetItemSettles ==
    /\ theme.queue # <<>>
    /\ Head(theme.queue).op = "setItem"
    /\ \E fault \in {"none", "write"} :
         LET r == setItem(theme.storage, DARK_MODE_KEY,
                          Head(theme.queue).text, fault)
         IN  ThemeStep([theme EXCEPT
                          !.queue = Tail(@),
                          !.storage = r.store,
                          !.failed = @ \/ r.completion = "throw"])

NextTheme ==
    \/ loadThemePreference
    \/ toggleTheme
    \/ ThemeGetItemSettles
    \/ loadThemePreferenceResumes
    \/ ThemeSetItemSettles

SpecTheme == InitTheme /\ [][NextTheme]_vars

---------------------------------------------------------------------------
(* Properties of the theme state (SpecTheme) *)

\* the persisted dark-mode value, an absent value counting as false
PersistedDarkMode ==
    /\ theme.storage[DARK_MODE_KEY] # NullItem
    /\ parseBoolean(theme.storage[DARK_MODE_KEY][1])

\* the load and every storage call completed, none with an error
ThemeSettled ==
    /\ theme.load = "done"
    /\ theme.queue = <<>>
    /\ ~theme.failed

\* C24: once the initial load and all storage calls of the toggles have
\* completed without error, the persisted dark-mode value equals isDarkMode.
\* (Each toggleTheme call changes isDarkMode when it is made; the load that
\* resumes after it is what breaks the equality.)
C24_PersistedEqualsInMemory ==
    ThemeSettled => PersistedDarkMode = theme.isDarkMode

---------------------------------------------------------------------------
(* SpecWeek: loadWeeklyData of WeeklyProgressReport step by step, one step *)
(* for each await, while saves and deletes of meals complete in between.   *)
(* A call of calculateDailyNutrition reads the entries once and is one     *)
(* step.                                                                   *)

\* the entries calculateDailyNutrition(date) filters out of the store
todayMeals(store, date, offset) ==
    SelectSeq(getMealEntries(store, "none"),
              LAMBDA meal : OnSameDay(meal, date, offset))

WeekStep(next) ==
    /\ loader' = next
    /\ UNCHANGED <<AsyncStorage, now, last, handlers, meals, acked, goalForm,
                   mealForm, report, photo, scanner, theme, home>>

\* the report screen mounts: setLoading(true), getUserGoals() is called
StartLoadWeeklyData ==
    /\ loader.pc = "idle"
    /\ WeekStep([NoLoad EXCEPT !.pc = "getUserGoals"])

\* getUserGoals resolved: setUserGoals(goals), the seven dates are made,
\* getMealEntries() is called
WeeklyGoalsLoaded ==
    /\ loader.pc = "getUserGoals"
    /\ WeekStep([loader EXCEPT !.pc = "getMealEntries", !.t = now,
                               !.goals = getUserGoals(AsyncStorage, "none")])

\* getMealEntries resolved: allMeals; the loop over the dates begins
WeeklyMealsLoaded ==
    /\ loader.pc = "getMealEntries"
    /\ WeekStep([loader EXCEPT !.pc = "calculateDailyNutrition",
                               !.allMeals = getMealEntries(AsyncStorage, "none")])

\* calculateDailyNutrition(date) resolved for the next date: the day is
\* pushed; after the seventh, setWeekData(weeklyData)
WeeklyDayLoaded ==
    /\ loader.pc = "calculateDailyNutrition"
    /\ LET k == Len(loader.weeklyData) + 1
           date == loader.t - (7 - k) * DayMs
           dayNutrition == calculateDailyNutrition(AsyncStorage, <<date>>, now,
                                                   report.offset, "none", "none")
           day == [date |-> toDateString(date, report.offset),
                   calories |-> dayNutrition.calories,
                   protein |-> dayNutrition.protein,
                   carbs |-> dayNutrition.carbs,
                   fat |-> dayNutrition.fat,
                   calorieGoalPercentage |->
                       calorieGoalPercentage(dayNutrition.calories, loader.goals),
                   hasEntries |->
                       \E i \in DOMAIN loader.allMeals :
                           OnSameDay(loader.allMeals[i], date, report.offset)]
       IN  WeekStep([loader EXCEPT
                       !.pc = IF k = 7 THEN "done" ELSE @,
                       !.weeklyData = Append(@, day),
                       !.summed = Append(@, todayMeals(AsyncStorage, date,
                                                       report.offset))])

\* time passes until the user acts again; a load takes less than that
PassTimeBeforeLoad ==
    /\ loader.pc = "idle"
    /\ PassTime

\* a deleteMealEntry of a stored meal completes
RemoveMeal ==
    \E i \in DOMAIN getMealEntries(AsyncStorage, "none") :
        /\ AsyncStorage' =
              deleteMealEntry(AsyncStorage,
                              getMealEntries(AsyncStorage, "none")[i].id,
                              "none").store
        /\ report' = Cleared
        /\ UNCHANGED <<now, last, handlers, meals, acked, goalForm, mealForm, others>>

NextWeek ==
    \/ PassTimeBeforeLoad
    \/ LogMeal
    \/ RemoveMeal
    \/ StartLoadWeeklyData
    \/ WeeklyGoalsLoaded
    \/ WeeklyMealsLoaded
    \/ WeeklyDayLoaded

SpecWeek == InitAgg /\ [][NextWeek]_vars

---------------------------------------------------------------------------
(* Properties of the weekly report under concurrent saves (SpecWeek) *)

\* C26: for every day loadWeeklyData pushed, hasEntries is true exactly
\* when calculateDailyNutrition summed a non-empty set of entries for that
\* day, and a day without hasEntries has calories, protein, carbs and fat 0,
\* also when a save or delete of a meal completes while loadWeeklyData runs.
C26_HasEntriesIffSummed ==
    \A k \in DOMAIN loader.weeklyData :
        /\ loader.weeklyData[k].hasEntries <=> loader.summed[k] # <<>>
        /\ ~loader.weeklyData[k].hasEntries =>
               \A f \in NutritionFields : loader.weeklyData[k][f] = 0

---------------------------------------------------------------------------
(* SpecHome: HomeScreen and the screens it returns in its place.  Every    *)
(* handler runs to its end before the user acts again.                     *)

\* new Date(meal.timestamp).getTime()
getTime(meal) == CHOOSE t \in Instants : IsoStrings[t] = meal.timestamp

\* sort((a, b) => new Date(b.timestamp).getTime() - new Date(a.timestamp).getTime())
RECURSIVE sortNewestFirst(_)
sortNewestFirst(entries) ==
    IF entries = <<>> THEN <<>>
    ELSE LET first == Head(entries)
             rest == sortNewestFirst(Tail(entries))
             before == SelectSeq(rest, LAMBDA m : getTime(m) >= getTime(first))
             after == SelectSeq(rest, LAMBDA m : getTime(m) < getTime(first))
         IN  IF \E i \in DOMAIN rest : getTime(rest[i]) = getTime(first)
             THEN <<first>> \o rest
             ELSE before \o <<first>> \o after

\* loadData: loadMeals, loadNutrition, loadGoals
loadData(screen, store, t, offset) ==
    LET savedMeals == getMealEntries(store, "none")
    IN  [screen |-> screen, loaded |-> TRUE,
         meals |-> savedMeals,
         todayMeals |->
             sortNewestFirst(SelectSeq(savedMeals,
                                       LAMBDA meal : OnSameDay(meal, t, offset))),
         nutrition |-> calculateDailyNutrition(store, <<>>, t, offset, "none", "none"),
         userGoals |-> getUserGoals(store, "none")]

HomeStep(store, next) ==
    /\ AsyncStorage' = store
    /\ home' = next
    /\ UNCHANGED <<now, last, handlers, meals, acked, goalForm, mealForm,
                   report, photo, scanner, theme, loader>>

\* the effect of the mount: loadData()
HomeScreenMounts ==
    /\ ~home.loaded
    /\ HomeStep(AsyncStorage, loadData("home", AsyncStorage, now, report.offset))

OnHome == home.loaded /\ home.screen = "home"

\* handleSaveMeal: saveMealEntry(mealEntry), loadData()
handleSaveMeal ==
    /\ OnHome
    /\ \E form \in FormFields :
         LET mealEntry == ImageDetectionModalEntry(form, Undefined, now)
             store == saveMealEntry(AsyncStorage, mealEntry, now, "none").store
         IN  HomeStep(store, loadData("home", store, now, report.offset))

\* handleUpdateMeal for a meal of the list of today: saveMealEntry(updatedMeal),
\* loadData()
handleUpdateMeal ==
    /\ OnHome
    /\ \E i \in DOMAIN home.todayMeals, form \in FormFields :
         LET updatedMeal == EditMealModalEntry(home.todayMeals[i], form)
             store == saveMealEntry(AsyncStorage, updatedMeal, now, "none").store
         IN  HomeStep(store, loadData("home", store, now, report.offset))

\* handleDeleteMeal: deleteMealEntry(mealId), loadData()
handleDeleteMeal ==
    /\ OnHome
    /\ \E i \in DOMAIN home.todayMeals :
         LET store == deleteMealEntry(AsyncStorage, home.todayMeals[i].id, "none").store
         IN  HomeStep(store, loadData("home", store, now, report.offset))

\* GoalSettingsModal.handleSave with the targets derived for a goal type,
\* then handleSaveGoals: setUserGoals(goals), loadData()
handleSaveGoals ==
    /\ OnHome
    /\ \E g \in GoalTypes :
         LET goals == FormGoals(Calculated([GoalFormInitial EXCEPT !.goalType = g]))
             store == saveUserGoals(AsyncStorage, goals, "none").store
         IN  HomeStep(store, loadData("home", store, now, report.offset))

\* setIsHistoryVisible(true), setIsSettingsVisible(true): HomeScreen returns
\* the other screen and stays mounted
OpenScreen ==
    /\ OnHome
    /\ \E screen \in {"history", "settings"} :
         HomeStep(AsyncStorage, [home EXCEPT !.screen = screen])

\* onBack of MealHistory and SettingsScreen: the flag is set to false
onBack ==
    /\ home.screen # "home"
    /\ HomeStep(AsyncStorage, [home EXCEPT !.screen = "home"])

\* MealHistory.handleUpdateMeal: saveMealEntry(updatedMeal), then its own
\* loadMeals()
HistoryUpdateMeal ==
    /\ home.screen = "history"
    /\ \E i \in DOMAIN getMealEntries(AsyncStorage, "none"), form \in FormFields :
         LET updatedMeal ==
                 EditMealModalEntry(getMealEntries(AsyncStorage, "none")[i], form)
         IN  HomeStep(saveMealEntry(AsyncStorage, updatedMeal, now, "none").store,
                      home)

\* MealHistory.handleDeleteMeal: deleteMealEntry(mealId), then its own
\* loadMeals()
HistoryDeleteMeal ==
    /\ home.screen = "history"
    /\ \E i \in DOMAIN getMealEntries(AsyncStorage, "none") :
         HomeStep(deleteMealEntry(AsyncStorage,
                                  getMealEntries(AsyncStorage, "none")[i].id,
                                  "none").store,
                  home)

\* SettingsScreen.clearAllData confirmed: AsyncStorage.clear(), onBack()
clearAllData ==
    /\ home.screen = "settings"
    /\ HomeStep([k \in StorageKeys |-> NullItem], [home EXCEPT !.screen = "home"])

NextHome ==
    \/ Tick
    \/ HomeScreenMounts
    \/ handleSaveMeal
    \/ handleUpdateMeal
    \/ handleDeleteMeal
    \/ handleSaveGoals
    \/ OpenScreen
    \/ onBack
    \/ HistoryUpdateMeal
    \/ HistoryDeleteMeal
    \/ clearAllData

SpecHome == Init /\ [][NextHome]_vars

---------------------------------------------------------------------------
(* Properties of the home screen (SpecHome) *)

\* C28: whenever the home screen is displayed after a loadData, the meals,
\* the meals of today, the nutrition totals and the goals it shows are those
\* of the store as it is now, also after an edit or delete in the meal
\* history and after Clear All Data.
C28_HomeShowsStore ==
    OnHome => home = loadData("home", AsyncStorage, now, report.offset)

---------------------------------------------------------------------------
(* SpecRead: saveMealEntry and deleteMealEntry on a store that an earlier  *)
(* run left, with entries or with a text that is not JSON, and on a        *)
(* storage whose reads can fail.                                           *)

\* what the store holds under MEAL_ENTRIES_KEY when the app starts
StoredEntries ==
    { UnparsableItem,
      Item(stringifyArray(
              <<Spread(CHOOSE c \in Contents : c.food = "apple", "id", toString(1))>>)) }

InitRead ==
    /\ \E item \in StoredEntries :
         AsyncStorage = [k \in StorageKeys |->
                            IF k = MEAL_ENTRIES_KEY THEN item ELSE NullItem]
    /\ now = 1
    /\ last = NoCall
    /\ handlers = [p \in 1..NumHandlers |-> Idle]
    /\ meals = <<>>
    /\ acked = {}
    /\ goalForm = GoalFormInitial
    /\ mealForm = NoMealForm
    /\ report = NoReport
    /\ InitOthers

NextRead ==
    \/ Tick
    \/ CallSaveMealEntry
    \/ CallDeleteMealEntry

SpecRead == InitRead /\ [][NextRead]_vars

---------------------------------------------------------------------------
(* Properties of the store calls whose read fails (SpecRead) *)

\* the last call could not read the entries: getItem rejected, or JSON.parse
\* threw on the stored text
ReadFailed ==
    \/ last.fault = "read"
    \/ ~parses(last.pre[MEAL_ENTRIES_KEY])

\* C29: a saveMealEntry or deleteMealEntry whose read of the stored entries
\* fails (getItem rejects, or the stored text is not JSON) returns false and
\* leaves the store exactly as it was: nothing is written in place of the
\* entries that could not be read.
C29_FailedReadWritesNothing ==
    (last.op \in {"saveMealEntry", "deleteMealEntry"} /\ ReadFailed) =>
        /\ last.completion = "return"
        /\ last.value = <<FALSE>>
        /\ AsyncStorage = last.pre

\* a saveMealEntry whose getItem rejected while an entry was stored
C29_Witness ==
    /\ last.op = "saveMealEntry"
    /\ last.fault = "read"
    /\ parses(last.pre[MEAL_ENTRIES_KEY])
    /\ getMealEntries(last.pre, "none") # <<>>
    /\ last.value = <<FALSE>>
    /\ AsyncStorage = last.pre

---------------------------------------------------------------------------
(* The frame of the store calls (Spec) *)

\* the id the last saveMealEntry stored under, the id the last
\* deleteMealEntry was called with
TargetId ==
    IF last.op = "deleteMealEntry" THEN last.arg[1]
    ELSE IF Truthy(Get(last.arg[1], "id")) THEN last.arg[1].id
    ELSE last.generated

\* the entries with another id, in their order
OtherEntries(entries) ==
    SelectSeq(entries, LAMBDA entry : Get(entry, "id") # TargetId)

====
